---- MODULE Spec2Model ----
(***************************************************************************)
(* Reversal-strategy pipeline of the Evaporating-Liquidity replication.    *)
(*                                                                         *)
(*   Spec     calc_reversal_strategy.calc_reverse_strategy_ret, one action *)
(*            per statement, run on a bounded long-format panel            *)
(*   SpecReg  regression_hac.prepare_data / daily_to_monthly, as called    *)
(*            twice by regression_hac.__main__ (daily, then monthly)       *)
(*                                                                         *)
(* Numbers are exact rationals [n, d] in lowest terms with d > 0.  The     *)
(* non-finite IEEE values the code can produce are kept: NaN is 0/0 and    *)
(* the infinities are +1/0 and -1/0.  Rounding error of binary floating    *)
(* point is not modelled.                                                  *)
(*                                                                         *)
(* pandas semantics are those of pandas >= 2.0 (the code dates from March  *)
(* 2024): groupby(...).nth() is a filter that keeps the original index,    *)
(* sum()/mean() skip NaN, and sum() of an all-NaN group is 0.              *)
(***************************************************************************)
EXTENDS Integers, Sequences, FiniteSets, TLC

\* ------------------------------------------------------------------------
\* Bounds of the model
\* ------------------------------------------------------------------------
NumDates == 7
MaxStart == 2
NumMonths == 6
DaysPerMonth == 6

\* ------------------------------------------------------------------------
\* float64 arithmetic, exact on rationals, with NaN and infinities
\* ------------------------------------------------------------------------
Abs(i) == IF i < 0 THEN -i ELSE i

Sgn(i) == IF i < 0 THEN -1 ELSE IF i > 0 THEN 1 ELSE 0

RECURSIVE GCD(_, _)
GCD(a, b) == IF b = 0 THEN a ELSE GCD(b, a % b)

NaN == [n |-> 0, d |-> 0]

Inf(s) == [n |-> s, d |-> 0]

IsFin(x) == x.d > 0

IsNaN(x) == x.d = 0 /\ x.n = 0

Rat(num, den) ==
    LET g == GCD(Abs(num), Abs(den))
    IN  [n |-> Sgn(den) * (num \div g), d |-> Abs(den) \div g]

R(i) == [n |-> i, d |-> 1]

RNeg(x) == [n |-> -x.n, d |-> x.d]

RAbs(x) == [n |-> Abs(x.n), d |-> x.d]

RAdd(x, y) ==
    IF IsNaN(x) \/ IsNaN(y) THEN NaN
    ELSE IF IsFin(x) /\ IsFin(y) THEN Rat(x.n * y.d + y.n * x.d, x.d * y.d)
    ELSE IF IsFin(x) THEN y
    ELSE IF IsFin(y) THEN x
    ELSE IF x.n = y.n THEN x ELSE NaN

RSub(x, y) == RAdd(x, RNeg(y))

RMul(x, y) ==
    IF IsNaN(x) \/ IsNaN(y) THEN NaN
    ELSE IF IsFin(x) /\ IsFin(y) THEN Rat(x.n * y.n, x.d * y.d)
    ELSE IF x.n = 0 \/ y.n = 0 THEN NaN
    ELSE Inf(Sgn(x.n) * Sgn(y.n))

\* variant: a guarded division that returns 0 instead of dividing by zero
RDiv_guarded(x, y) ==
    IF IsNaN(x) \/ IsNaN(y) THEN NaN
    ELSE IF IsFin(x) /\ IsFin(y) THEN
        IF y.n # 0 THEN Rat(x.n * y.d, x.d * y.n) ELSE R(0)
    ELSE IF IsFin(y) THEN Inf(x.n * (IF y.n < 0 THEN -1 ELSE 1))
    ELSE IF IsFin(x) THEN R(0)
    ELSE NaN

\* numpy true division: 0/0 is NaN, x/0 is a signed infinity, no exception
RDiv(x, y) ==
    IF IsNaN(x) \/ IsNaN(y) THEN NaN
    ELSE IF IsFin(x) /\ IsFin(y) THEN
        IF y.n # 0 THEN Rat(x.n * y.d, x.d * y.n)
        ELSE IF x.n = 0 THEN NaN
        ELSE Inf(Sgn(x.n))
    ELSE IF IsFin(y) THEN Inf(x.n * (IF y.n < 0 THEN -1 ELSE 1))
    ELSE IF IsFin(x) THEN R(0)
    ELSE NaN

Half == Rat(1, 2)

\* Series.sum() over the rows S of column col: NaN skipped, empty sum is 0
RECURSIVE SumSkipNa(_, _)
SumSkipNa(S, col) ==
    IF S = {} THEN R(0)
    ELSE LET p == CHOOSE q \in S : TRUE
             rest == SumSkipNa(S \ {p}, col)
         IN  IF IsNaN(col[p]) THEN rest ELSE RAdd(col[p], rest)

CountNotNa(S, col) == Cardinality({p \in S : ~IsNaN(col[p])})

\* Series.mean(): NaN skipped, NaN when nothing is left
MeanSkipNa(S, col) ==
    IF CountNotNa(S, col) = 0 THEN NaN
    ELSE RDiv(SumSkipNa(S, col), R(CountNotNa(S, col)))

\* ------------------------------------------------------------------------
\* State
\* ------------------------------------------------------------------------
VARIABLES
    pc,        \* statement calc_reverse_strategy_ret executes next
    i,         \* loop variable of "for i in range(1, 6)"
    df,        \* the panel: column name -> column (sequence over the rows)
    out,       \* the returned Series: date -> value; << >> before the return
    rpc,       \* statement regression_hac.__main__ / prepare_data executes next
    to_monthly, \* argument of the running prepare_data call
    ret_in,    \* the strategy return table as stored (reversal_return parquet)
    ret,       \* caller's tables handed to prepare_data (modified in place)
    vix,
    rm,
    l_ret,     \* prepare_data's locals after rebinding
    l_vix,
    l_rm,
    l_g,
    data,      \* daily design table
    data_m     \* monthly design table

engvars == <<pc, i, df, out>>

regvars == <<rpc, to_monthly, ret_in, ret, vix, rm, l_ret, l_vix, l_rm, l_g,
             data, data_m>>

\* calc_hedged_return and the Beta row of summary_stats
VARIABLES
    hpc,          \* statement calc_hedged_return / summary_stats executes next
    h_ret,        \* ret: the raw strategy return series handed in
    index,        \* index: the market index return series, in percent
    shifted_sign, \* shifted_sign
    beta,         \* beta: what calc_multiple_beta returned
    hedged_ret,   \* hedged_ret: the returned series
    stats_beta    \* stats['Beta'] of the hedged column

hedvars == <<hpc, h_ret, index, shifted_sign, beta, hedged_ret, stats_beta>>

\* calc_reversal_strategy.__main__: the three universes and ret_raw
VARIABLES
    apc,       \* statement __main__ / the running wrapper executes next
    a_call,    \* number of the running wrapper call (lines 275, 276, 277)
    a_in,      \* universe -> the table handed to its wrapper
    a_out,     \* universe -> rev_ret as the engine returned it
    a_rev,     \* universe -> the Series its wrapper returned
    a_start,   \* start
    a_end,     \* end
    ret_raw    \* ret_raw

aggvars == <<apc, a_call, a_in, a_out, a_rev, a_start, a_end, ret_raw>>

\* regression_hac.generate_table
VARIABLES
    gpc,       \* statement generate_table executes next
    g_univ,    \* number of the running regression_all call (lines 113-115)
    g_model,   \* number of the running regression_hac call (lines 99-105)
    results,   \* the fitted models so far, in the order they are fitted
    table      \* the comparison table: one entry per column

fitvars == <<gpc, g_univ, g_model, results, table>>

\* additional_analysis.performance_summary, drawdown block, one column
VARIABLES
    ppc,             \* statement performance_summary executes next
    return_data,     \* the returns of the column, in percent, by date
    wealth_index,    \* line 40
    previous_peaks,  \* line 41
    drawdowns,       \* line 42
    max_drawdown,    \* summary_stats['Max Drawdown(%)'] as formatted
    peak,            \* summary_stats['Peak']
    bottom,          \* summary_stats['Bottom']
    recovery_date,   \* summary_stats['Recovery Date']
    duration         \* summary_stats['Duration (days)']

perfvars == <<ppc, return_data, wealth_index, previous_peaks, drawdowns,
              max_drawdown, peak, bottom, recovery_date, duration>>

\* two calc_reverse_strategy_ret invocations with their statements interleaved
VARIABLES
    cpc,      \* per invocation: the statement it executes next
    ci,       \* per invocation: its loop variable
    cpanel,   \* per invocation: the panel object it was given
    cdf,      \* per panel object: the frame
    cout      \* per invocation: the returned Series, << >> before the return

parvars == <<cpc, ci, cpanel, cdf, cout>>

\* clean_CRSP_stock.__main__ followed by the stock universes' first statement
VARIABLES
    kpc,                \* the call clean_CRSP_stock.__main__ makes next
    df_dsf,             \* the daily file as the caller holds it
    k_df,               \* the frame handed from one cleaning step to the next
    k_arg,              \* the frame the last clean_1dollar_prc call was given
    df_closing_prices,  \* CRSP_closing_price.parquet
    df_midpoint         \* CRSP_midpoint.parquet

cleanvars == <<kpc, df_dsf, k_df, k_arg, df_closing_prices, df_midpoint>>

restvars == <<hedvars, aggvars, fitvars, perfvars, parvars, cleanvars>>

nothed == <<engvars, regvars, aggvars, fitvars, perfvars, parvars, cleanvars>>

notagg == <<engvars, regvars, hedvars, fitvars, perfvars, parvars, cleanvars>>

notfit == <<engvars, regvars, hedvars, aggvars, perfvars, parvars, cleanvars>>

notperf == <<engvars, regvars, hedvars, aggvars, fitvars, parvars, cleanvars>>

notpar == <<engvars, regvars, hedvars, aggvars, fitvars, perfvars, cleanvars>>

notclean == <<engvars, regvars, hedvars, aggvars, fitvars, perfvars, parvars>>

vars == <<engvars, regvars, restvars>>

\* the parts of the pipeline a specification does not run hold no data
HedIdle ==
    /\ hpc = "idle"
    /\ h_ret = << >> /\ index = << >> /\ shifted_sign = << >>
    /\ beta = << >> /\ hedged_ret = << >> /\ stats_beta = << >>

AggIdle ==
    /\ apc = "idle" /\ a_call = 0
    /\ a_in = << >> /\ a_out = << >> /\ a_rev = << >>
    /\ a_start = 0 /\ a_end = 0
    /\ ret_raw = << >>

EngIdle ==
    /\ pc = "idle" /\ i = 1 /\ out = << >>
    /\ df = ("date" :> << >>) @@ ("permno" :> << >>) @@ ("retx" :> << >>)

RegIdle ==
    /\ rpc = "idle" /\ to_monthly = FALSE
    /\ ret_in = << >> /\ ret = << >> /\ vix = << >> /\ rm = << >>
    /\ l_ret = << >> /\ l_vix = << >> /\ l_rm = << >> /\ l_g = << >>
    /\ data = << >> /\ data_m = << >>

FitIdle ==
    /\ gpc = "idle" /\ g_univ = 0 /\ g_model = 0
    /\ results = << >> /\ table = << >>

PerfIdle ==
    /\ ppc = "idle"
    /\ return_data = << >> /\ wealth_index = << >>
    /\ previous_peaks = << >> /\ drawdowns = << >>
    /\ max_drawdown = << >>
    /\ peak = 0 /\ bottom = 0 /\ recovery_date = 0 /\ duration = << >>

ParIdle ==
    /\ cpc = << >> /\ ci = << >> /\ cpanel = << >>
    /\ cdf = << >> /\ cout = << >>

CleanIdle ==
    /\ kpc = "idle"
    /\ df_dsf = << >> /\ k_df = << >> /\ k_arg = << >>
    /\ df_closing_prices = << >> /\ df_midpoint = << >>

RestIdle ==
    HedIdle /\ AggIdle /\ FitIdle /\ PerfIdle /\ ParIdle /\ CleanIdle

\* ------------------------------------------------------------------------
\* DataFrame helpers
\* ------------------------------------------------------------------------
NRows(f) == Len(f["date"])

Rows(f) == 1..NRows(f)

SetCol(f, c, v) == (c :> v) @@ f

\* rows of the group of row p under groupby(key)
Group(f, key, p) == {q \in Rows(f) : f[key][q] = f[key][p]}

\* groupby(key)[col].shift(k): the value k rows earlier among the rows of the
\* same group, in the row order of the frame; NaN when there is none
GroupShift(f, key, col, k) ==
    [p \in Rows(f) |->
        LET before == {q \in Group(f, key, p) : q < p}
        IN  IF Cardinality(before) < k THEN NaN
            ELSE f[col][CHOOSE q \in before :
                            Cardinality({x \in before : x > q}) = k - 1]]

type_col == "permno"

ret_col == "retx"

NLags == 5

LagName(k) ==
    CASE k = 1 -> "w_lag_1" [] k = 2 -> "w_lag_2" [] k = 3 -> "w_lag_3"
      [] k = 4 -> "w_lag_4" [] k = 5 -> "w_lag_5"

\* ------------------------------------------------------------------------
\* Panels handed to the engine
\* ------------------------------------------------------------------------
Dates == 1..NumDates

\* three entities: one that may miss one date, one listed on every date and
\* one listed from its first date on
Gapped == {1}

Steady == {2}

Late == {3}

Entities == Gapped \cup Steady \cup Late

\* daily returns in percent, one menu entry per entity
RetMenu(k, d) ==
    CASE k = 1 -> d
      [] k = 2 -> 2
      [] k = 3 -> (d * d) % 5

Menu == 1..3

Present(e, d, gap, start) ==
    IF e \in Gapped THEN d # gap[e]
    ELSE IF e \in Late THEN d >= start[e]
    ELSE TRUE

Cells(gap, start) ==
    {c \in Entities \X Dates : Present(c[1], c[2], gap, start)}

CellKey(c, layout) ==
    IF layout = "entity" THEN c[1] * (NumDates + 1) + c[2]
    ELSE c[2] * (Cardinality(Entities) + 1) + c[1]

RECURSIVE SortCells(_, _)
SortCells(S, layout) ==
    IF S = {} THEN << >>
    ELSE LET c == CHOOSE x \in S :
                    \A y \in S : CellKey(x, layout) <= CellKey(y, layout)
         IN  <<c>> \o SortCells(S \ {c}, layout)

\* rows are in period order within every entity: entity-major (as written by
\* unstack().reset_index() and as CRSP stores the daily file) or date-major
Panel(pat, gap, start, layout) ==
    LET cs == SortCells(Cells(gap, start), layout)
    IN  ("date" :> [p \in 1..Len(cs) |-> cs[p][2]])
     @@ (type_col :> [p \in 1..Len(cs) |-> cs[p][1]])
     @@ (ret_col :> [p \in 1..Len(cs) |-> R(RetMenu(pat[cs[p][1]], cs[p][2]))])

Panels ==
    {Panel(pat, gap, start, layout) :
        pat \in [Entities -> Menu],
        gap \in [Gapped -> 0..NumDates],
        start \in [Late -> 1..MaxStart],
        layout \in {"entity", "date"}}

\* ------------------------------------------------------------------------
\* calc_reverse_strategy_ret(df, type_col, ret_col)
\* ------------------------------------------------------------------------
Init ==
    /\ pc = "L32"
    /\ i = 1
    /\ df \in Panels
    /\ out = << >>
    /\ rpc = "idle"
    /\ to_monthly = FALSE
    /\ ret_in = << >> /\ ret = << >> /\ vix = << >> /\ rm = << >>
    /\ l_ret = << >> /\ l_vix = << >> /\ l_rm = << >> /\ l_g = << >>
    /\ data = << >> /\ data_m = << >>
    /\ RestIdle

\* df['ret-avg'] = df.groupby('date')[ret_col].transform(lambda x: x - x.mean())
DemeanCol(f) ==
    [p \in Rows(f) |->
        RSub(f[ret_col][p], MeanSkipNa(Group(f, "date", p), f[ret_col]))]

Demean ==
    /\ pc = "L32"
    /\ df' = SetCol(df, "ret-avg", DemeanCol(df))
    /\ pc' = "L33"
    /\ UNCHANGED <<i, out, regvars, restvars>>

\* df['w'] = df.groupby('date')['ret-avg'].transform(
\*               lambda x: - x / (0.5 * x.abs().sum()))
\* variant: scaled by the whole absolute sum (factor 0.5 left out)
WeightCol_nohalf(f) ==
    LET absx == [p \in Rows(f) |-> RAbs(f["ret-avg"][p])]
    IN  [p \in Rows(f) |->
            RDiv(RNeg(f["ret-avg"][p]),
                 SumSkipNa(Group(f, "date", p), absx))]

WeightCol(f) ==
    LET absx == [p \in Rows(f) |-> RAbs(f["ret-avg"][p])]
    IN  [p \in Rows(f) |->
            RDiv(RNeg(f["ret-avg"][p]),
                 RMul(Half, SumSkipNa(Group(f, "date", p), absx)))]

Weight ==
    /\ pc = "L33"
    /\ df' = SetCol(df, "w", WeightCol(df))
    /\ pc' = "L36"
    /\ i' = 1
    /\ UNCHANGED <<out, regvars, restvars>>

\* for i in range(1, 6): df[f'w_lag_{i}'] = df.groupby(type_col)['w'].shift(i)
\* variant: df['w'].shift(k) without the groupby
LagCol_ungrouped(f, k) ==
    [p \in Rows(f) |-> IF p - k >= 1 THEN f["w"][p - k] ELSE NaN]

LagCol(f, k) == GroupShift(f, type_col, "w", k)

LagLoop ==
    /\ pc = "L36"
    /\ df' = SetCol(df, LagName(i), LagCol(df, i))
    /\ IF i < NLags THEN i' = i + 1 /\ pc' = "L36"
                    ELSE i' = i /\ pc' = "L38"
    /\ UNCHANGED <<out, regvars, restvars>>

\* df['rev_ret'] = (w_lag_1 + w_lag_2 + w_lag_3 + w_lag_4 + w_lag_5)
\*                 * df[ret_col] / 5
\* variant: the loop bound off by one, only four lags are averaged
RevRetCol_fourlags(f) ==
    [p \in Rows(f) |->
        RDiv(RMul(RAdd(RAdd(RAdd(f["w_lag_1"][p], f["w_lag_2"][p]),
                            f["w_lag_3"][p]), f["w_lag_4"][p]),
                  f[ret_col][p]),
             R(5))]

RevRetCol(f) ==
    [p \in Rows(f) |->
        RDiv(RMul(RAdd(RAdd(RAdd(RAdd(f["w_lag_1"][p], f["w_lag_2"][p]),
                                 f["w_lag_3"][p]), f["w_lag_4"][p]),
                       f["w_lag_5"][p]),
                  f[ret_col][p]),
             R(5))]

RevRet ==
    /\ pc = "L38"
    /\ df' = SetCol(df, "rev_ret", RevRetCol(df))
    /\ pc' = "L40"
    /\ UNCHANGED <<i, out, regvars, restvars>>

\* return df.groupby('date')['rev_ret'].sum()
GroupSumByDate(f) ==
    [d \in {f["date"][p] : p \in Rows(f)} |->
        SumSkipNa({p \in Rows(f) : f["date"][p] = d}, f["rev_ret"])]

GroupSum ==
    /\ pc = "L40"
    /\ out' = GroupSumByDate(df)
    /\ pc' = "done"
    /\ UNCHANGED <<i, df, regvars, restvars>>

Next == Demean \/ Weight \/ LagLoop \/ RevRet \/ GroupSum

Spec == Init /\ [][Next]_vars

\* ------------------------------------------------------------------------
\* Date-indexed tables: a sequence of rows [date, v], dates ascending, v a
\* function from column name to value.  Dates are trading days 1, 2, ...;
\* month m holds the days (m-1)*DaysPerMonth+1 .. m*DaysPerMonth and a
\* month-end label is the month's last day.
\* ------------------------------------------------------------------------
NumDays == NumMonths * DaysPerMonth

Month(d) == ((d - 1) \div DaysPerMonth) + 1

\* date + pd.offsets.MonthEnd(): the next month end strictly after the date
AddMonthEnd(d) ==
    IF d % DaysPerMonth = 0 THEN d + DaysPerMonth ELSE Month(d) * DaysPerMonth

FrameDates(F) == {F[p].date : p \in 1..Len(F)}

RowAt(F, d) == F[CHOOSE p \in 1..Len(F) : F[p].date = d]

NaNRow(cols) == [c \in cols |-> NaN]

RowHasNa(r) == \E c \in DOMAIN r.v : IsNaN(r.v[c])

\* DataFrame.dropna(): rows with a NaN in any column are removed
\* variant: how='all', only rows that are NaN in every column are removed
DropNa_all(F) ==
    SelectSeq(F, LAMBDA r : \E c \in DOMAIN r.v : ~IsNaN(r.v[c]))

DropNa(F) == SelectSeq(F, LAMBDA r : ~RowHasNa(r))

\* variant: shift by calendar days instead of by rows
Shift_calendar(F, k) ==
    [p \in 1..Len(F) |->
        [date |-> F[p].date,
         v |-> IF F[p].date - k \in FrameDates(F)
               THEN RowAt(F, F[p].date - k).v
               ELSE NaNRow(DOMAIN F[p].v)]]

\* DataFrame.shift(k): values move down k rows, the index stays
Shift(F, k) ==
    [p \in 1..Len(F) |->
        [date |-> F[p].date,
         v |-> IF p > k THEN F[p - k].v ELSE NaNRow(DOMAIN F[p].v)]]

\* vix / np.sqrt(250): the value is kept exactly, tagged as divided by sqrt(250)
DivSqrt250(x) == [n |-> x.n, d |-> x.d, per_sqrt250 |-> TRUE]

ScaleVix(F) ==
    [p \in 1..Len(F) |->
        [date |-> F[p].date,
         v |-> [c \in DOMAIN F[p].v |-> DivSqrt250(F[p].v[c])]]]

RollWindow == 20

RECURSIVE ProdGross(_, _, _, _)
ProdGross(F, c, lo, hi) ==
    IF lo > hi THEN R(1)
    ELSE RMul(ProdGross(F, c, lo, hi - 1), RAdd(R(1), F[hi].v[c]))

\* (1 + rm).rolling(20).apply(np.prod, raw=True) - 1
Rolling(F) ==
    [p \in 1..Len(F) |->
        [date |-> F[p].date,
         v |-> [c \in DOMAIN F[p].v |->
                  IF p < RollWindow THEN NaN
                  ELSE RSub(ProdGross(F, c, p - RollWindow + 1, p), R(1))]]]

\* '2001-04-09' on the model's calendar
BreakDate == 22

\* g = (rm.index.to_series() <= '2001-04-09').astype(int)
Dummy(F) ==
    [p \in 1..Len(F) |->
        [date |-> F[p].date,
         v |-> ("Pre-decim." :> R(IF F[p].date <= BreakDate THEN 1 ELSE 0))]]

RECURSIVE SortDates(_)
SortDates(S) ==
    IF S = {} THEN << >>
    ELSE LET d == CHOOSE x \in S : \A y \in S : x <= y
         IN  <<d>> \o SortDates(S \ {d})

Universes == {"trade", "quote", "industry"}

ColsOrNa(F, d, cols) ==
    IF d \in FrameDates(F) THEN RowAt(F, d).v ELSE NaNRow(cols)

\* pd.concat([ret, vix, rm, g], axis=1): outer join on the index
Concat(fret, fvix, frm, fg) ==
    LET ds == SortDates(FrameDates(fret) \cup FrameDates(fvix)
                        \cup FrameDates(frm) \cup FrameDates(fg))
    IN  [p \in 1..Len(ds) |->
            [date |-> ds[p],
             v |-> ColsOrNa(fret, ds[p], Universes)
                   @@ ColsOrNa(fvix, ds[p], {"VIX"})
                   @@ ColsOrNa(frm, ds[p], {"$R_M$"})
                   @@ ColsOrNa(fg, ds[p], {"Pre-decim."})]]

\* ret.resample('M').mean(): one row per month from the first to the last
\* month of the table, labelled by the month end; NaN for an empty month
ResampleMean(F) ==
    IF Len(F) = 0 THEN << >>
    ELSE LET m0 == Month(F[1].date)
             m1 == Month(F[Len(F)].date)
         IN  [k \in 1..(m1 - m0 + 1) |->
                LET m == m0 + k - 1
                    S == {p \in 1..Len(F) : Month(F[p].date) = m}
                IN  [date |-> m * DaysPerMonth,
                     v |-> [c \in Universes |->
                              MeanSkipNa(S, [p \in 1..Len(F) |-> F[p].v[c]])]]]

\* x.groupby(pd.Grouper(freq='M')).nth(-lag): of every month the row that is
\* the lag-th from the month's last row; months with fewer rows give none
NthFromEnd(F, lag) ==
    SelectSeq(F, LAMBDA r :
        Cardinality({q \in 1..Len(F) :
                        /\ Month(F[q].date) = Month(r.date)
                        /\ F[q].date >= r.date}) = lag)

\* x.index = x.index + pd.offsets.MonthEnd()
ToMonthEnd(F) ==
    [p \in 1..Len(F) |-> [date |-> AddMonthEnd(F[p].date), v |-> F[p].v]]

\* variant: the final .shift() left out
MonthlyPredictor_noshift(F, lag) == ToMonthEnd(NthFromEnd(F, lag))

\* daily_to_monthly, one predictor: nth(-lag), index to month end, shift()
MonthlyPredictor(F, lag) == Shift(ToMonthEnd(NthFromEnd(F, lag)), 1)

\* ------------------------------------------------------------------------
\* Inputs of regression_hac.__main__
\* ------------------------------------------------------------------------
Days == 1..NumDays

\* stored strategy returns: every universe on every day, except that one
\* universe may have no value from some day of the last month on
RetTable(u0, from) ==
    [d \in Days |->
        [date |-> d,
         v |-> [u \in Universes |->
                  IF u = u0 /\ d >= from THEN NaN
                  ELSE R(d + (IF u = "trade" THEN 10
                              ELSE IF u = "quote" THEN 20 ELSE 30))]]]

\* VIX close: one value per day; the day hol, if any, is a holiday (NaN).
\* Holidays are placed in the last three months: no table has a row earlier.
VixTable(hol) ==
    [d \in Days |->
        [date |-> d, v |-> ("VIX" :> IF d = hol THEN NaN ELSE R(d))]]

\* value-weighted index return of day d
RmTable ==
    [d \in Days |-> [date |-> d, v |-> ("$R_M$" :> Rat(1, d))]]

lag == 5

InitReg ==
    /\ pc = "idle" /\ i = 1 /\ out = << >>
    /\ df = ("date" :> << >>) @@ (type_col :> << >>) @@ (ret_col :> << >>)
    /\ rpc = "call"
    /\ to_monthly = FALSE
    /\ \E u0 \in Universes, from \in (NumDays - DaysPerMonth + 2)..(NumDays + 1) :
          ret_in = RetTable(u0, from)
    /\ ret = ret_in
    /\ \E hol \in {0} \cup (NumDays - 3 * DaysPerMonth + 1)..NumDays :
          vix = VixTable(hol)
    /\ rm = RmTable
    /\ l_ret = << >> /\ l_vix = << >> /\ l_rm = << >> /\ l_g = << >>
    /\ data = << >> /\ data_m = << >>
    /\ RestIdle

\* ret.dropna(inplace=True); vix.dropna(inplace=True); rm.dropna(inplace=True)
PD_DropNa ==
    /\ rpc = "call"
    /\ ret' = DropNa(ret)
    /\ vix' = DropNa(vix)
    /\ rm' = DropNa(rm)
    /\ rpc' = "L39"
    /\ UNCHANGED <<to_monthly, ret_in, l_ret, l_vix, l_rm, l_g, data, data_m,
                   engvars, restvars>>

\* vix = vix / np.sqrt(250); rm = rolling compounded return; g = dummy
PD_Scale ==
    /\ rpc = "L39"
    /\ l_ret' = ret
    /\ l_vix' = ScaleVix(vix)
    /\ l_rm' = Rolling(rm)
    /\ l_g' = Dummy(rm)
    /\ rpc' = "L46"
    /\ UNCHANGED <<to_monthly, ret_in, ret, vix, rm, data, data_m, engvars, restvars>>

\* if to_monthly: daily_to_monthly(...) else: shift(lag) of the predictors
PD_Lag ==
    /\ rpc = "L46"
    /\ IF to_monthly
       THEN /\ l_ret' = ResampleMean(l_ret)
            /\ l_vix' = MonthlyPredictor(l_vix, lag)
            /\ l_rm' = MonthlyPredictor(l_rm, lag)
            /\ l_g' = MonthlyPredictor(l_g, lag)
       ELSE /\ l_ret' = l_ret
            /\ l_vix' = Shift(l_vix, lag)
            /\ l_rm' = Shift(l_rm, lag)
            /\ l_g' = Shift(l_g, lag)
    /\ rpc' = "L53"
    /\ UNCHANGED <<to_monthly, ret_in, ret, vix, rm, data, data_m, engvars, restvars>>

\* data = pd.concat([ret, vix, rm, g], axis=1); data.dropna(inplace=True);
\* return data -- __main__ binds it to data, then calls again for data_m
PD_Concat ==
    /\ rpc = "L53"
    /\ IF to_monthly
       THEN /\ data_m' = DropNa(Concat(l_ret, l_vix, l_rm, l_g))
            /\ rpc' = "done"
            /\ UNCHANGED <<data, to_monthly>>
       ELSE /\ data' = DropNa(Concat(l_ret, l_vix, l_rm, l_g))
            /\ rpc' = "call"
            /\ to_monthly' = TRUE
            /\ UNCHANGED data_m
    /\ UNCHANGED <<ret_in, ret, vix, rm, l_ret, l_vix, l_rm, l_g, engvars, restvars>>

NextReg == PD_DropNa \/ PD_Scale \/ PD_Lag \/ PD_Concat

SpecReg == InitReg /\ [][NextReg]_vars

\* ------------------------------------------------------------------------
\* Series: a sequence of rows [date, x] in stored order, dates ascending
\* ------------------------------------------------------------------------
NumHedgeDates == 5

SeriesDates(S) == {S[p].date : p \in 1..Len(S)}

ValAt(S, d) == S[CHOOSE p \in 1..Len(S) : S[p].date = d].x

ValOrNa(S, d) == IF d \in SeriesDates(S) THEN ValAt(S, d) ELSE NaN

\* a binary operation on two Series: pandas aligns on the union of the two
\* indexes, sorted; a date one side lacks gives NaN
AlignedOp(Op(_, _), A, B) ==
    LET ds == SortDates(SeriesDates(A) \cup SeriesDates(B))
    IN  [p \in 1..Len(ds) |->
            [date |-> ds[p], x |-> Op(ValOrNa(A, ds[p]), ValOrNa(B, ds[p]))]]

\* ------------------------------------------------------------------------
\* sm.OLS(y, X, missing='drop').fit(): least squares by the pseudo-inverse,
\* params = pinv(X) y, the minimum-norm solution when X is rank deficient.
\* With G = X'X and b = X'y, params = G^+ b; for a positive semi-definite
\* G of rank 2 and b in its range G^+ b = (tr(G) b - G b) / e2, with e2 the
\* sum of the principal 2x2 minors, and for rank 1 G^+ b = b / tr(G).
\* ------------------------------------------------------------------------
RECURSIVE Dot(_, _, _)
Dot(a, b, n) ==
    IF n = 0 THEN R(0) ELSE RAdd(Dot(a, b, n - 1), RMul(a[n], b[n]))

Gram(cols, n) ==
    [r \in 1..Len(cols) |-> [c \in 1..Len(cols) |-> Dot(cols[r], cols[c], n)]]

Moment(cols, y, n) == [r \in 1..Len(cols) |-> Dot(cols[r], y, n)]

Det2(a, b, c, d) == RSub(RMul(a, d), RMul(b, c))

Det3(M) ==
    RAdd(RSub(RMul(M[1][1], Det2(M[2][2], M[2][3], M[3][2], M[3][3])),
              RMul(M[1][2], Det2(M[2][1], M[2][3], M[3][1], M[3][3]))),
         RMul(M[1][3], Det2(M[2][1], M[2][2], M[3][1], M[3][2])))

Det(M) ==
    IF Len(M) = 1 THEN M[1][1]
    ELSE IF Len(M) = 2 THEN Det2(M[1][1], M[1][2], M[2][1], M[2][2])
    ELSE Det3(M)

ReplaceCol(M, j, b) ==
    [r \in 1..Len(M) |-> [c \in 1..Len(M) |-> IF c = j THEN b[r] ELSE M[r][c]]]

RECURSIVE Trace(_, _)
Trace(M, k) == IF k = 0 THEN R(0) ELSE RAdd(Trace(M, k - 1), M[k][k])

\* sum of the principal 2x2 minors of a 3x3 matrix
Minors2(M) ==
    RAdd(RAdd(Det2(M[1][1], M[1][2], M[2][1], M[2][2]),
              Det2(M[1][1], M[1][3], M[3][1], M[3][3])),
         Det2(M[2][2], M[2][3], M[3][2], M[3][3]))

MatVec(M, b) == [r \in 1..Len(M) |-> Dot(M[r], b, Len(M))]

PinvSolve(G, b) ==
    LET k == Len(G)
        tr == Trace(G, k)
    IN  IF Det(G).n # 0
        THEN [j \in 1..k |-> RDiv(Det(ReplaceCol(G, j, b)), Det(G))]
        ELSE IF k = 3 /\ Minors2(G).n # 0
        THEN LET Gb == MatVec(G, b)
             IN  [j \in 1..k |->
                    RDiv(RSub(RMul(tr, b[j]), Gb[j]), Minors2(G))]
        ELSE IF tr.n # 0 THEN [j \in 1..k |-> RDiv(b[j], tr)]
        ELSE [j \in 1..k |-> R(0)]

OLSParams(cols, y) == PinvSolve(Gram(cols, Len(y)), Moment(cols, y, Len(y)))

\* statsmodels refuses pandas operands whose indexes differ:
\* "The indices for endog and exog are not aligned"
\* variant: the operands are joined on their common dates instead
IndicesAligned_joined(y, X) == TRUE

IndicesAligned(y, X) ==
    [p \in 1..Len(y) |-> y[p].date] = [p \in 1..Len(X) |-> X[p].date]

\* a column add_constant takes for an intercept: constant and not zero
IsConstNonzero(col) ==
    /\ Len(col) > 0
    /\ \A p \in 1..Len(col) : col[p] = col[1]
    /\ col[1].n # 0

\* sm.tools.add_constant(factor), has_constant='skip': no column of ones is
\* added when a column of factor is already a non-zero constant
\* variant: the column of ones is always added
AddsConstant_always(cols) == TRUE

AddsConstant(cols) == ~\E c \in 1..Len(cols) : IsConstNonzero(cols[c])

Ones(n) == [p \in 1..n |-> R(1)]

AddConstant(cols, n) == IF AddsConstant(cols) THEN <<Ones(n)>> \o cols ELSE cols

\* the rows a fit uses: the dates both operands have, without the rows that
\* hold a NaN (missing='drop')
FitDates(y, x) ==
    SortDates({d \in SeriesDates(y) \cap SeriesDates(x) :
                  ~IsNaN(ValAt(y, d)) /\ ~IsNaN(ValAt(x, d))})

Col(S, ds) == [p \in 1..Len(ds) |-> ValAt(S, ds[p])]

\* model.params[1:]
\* variant: model.params[:-1], the intercept kept and the last slope lost
DropIntercept_keepfirst(params) == SubSeq(params, 1, Len(params) - 1)

DropIntercept(params) == Tail(params)

\* ------------------------------------------------------------------------
\* calc_hedged_return(ret) and the Beta row of summary_stats
\* ------------------------------------------------------------------------
\* lambda x: 1 if x > 0 else -1; a NaN compares False
\* variant: x >= 0
SignOf_ge(x) == IF ~IsNaN(x) /\ x.n >= 0 THEN 1 ELSE -1

SignOf(x) == IF ~IsNaN(x) /\ x.n > 0 THEN 1 ELSE -1

\* index.shift(1).apply(lambda x: 1 if x > 0 else -1)
ShiftedSign(S) ==
    [p \in 1..Len(S) |->
        [date |-> S[p].date,
         x |-> R(SignOf(IF p > 1 THEN S[p - 1].x ELSE NaN))]]

\* calc_multiple_beta(factor, fund_ret) with factor = [index, index * sign]
CalcMultipleBeta(ind, ind_sign, fund_ret) ==
    LET ds == FitDates(fund_ret, ind)
        cols == AddConstant(<<Col(ind, ds), Col(ind_sign, ds)>>, Len(ds))
    IN  DropIntercept(OLSParams(cols, Col(fund_ret, ds)))

\* beta[0] + beta[1] * shifted_sign
TimeVaryingBeta(b, sgn) ==
    [p \in 1..Len(sgn) |->
        [date |-> sgn[p].date, x |-> RAdd(b[1], RMul(b[2], sgn[p].x))]]

\* ret - time_varying_beta * index
HedgedRet(r, tvb, ind) == AlignedOp(RSub, r, AlignedOp(RMul, tvb, ind))

\* calc_beta(index, x): model.params[1] of the fit of x on [1, index]
CalcBetaParams(ind, fund_ret) ==
    LET ds == FitDates(fund_ret, ind)
    IN  OLSParams(AddConstant(<<Col(ind, ds)>>, Len(ds)), Col(fund_ret, ds))

HedgeDates == 1..NumHedgeDates

\* market index returns in percent
FVals == {-1, 0, 1}

YMenu(k, t) == IF k = 1 THEN (t * t) % 5 ELSE (3 * t) % 4

\* the index file covers the strategy's sample, or starts one day before it
IndexTable(f, wider) ==
    LET body == [t \in HedgeDates |-> [date |-> t, x |-> R(f[t])]]
    IN  IF wider THEN <<[date |-> 0, x |-> R(1)]>> \o body ELSE body

InitHedge ==
    /\ EngIdle /\ RegIdle /\ AggIdle /\ FitIdle /\ PerfIdle /\ ParIdle
    /\ CleanIdle
    /\ hpc = "L119"
    /\ \E k \in 1..2 :
          h_ret = [t \in HedgeDates |-> [date |-> t, x |-> R(YMenu(k, t))]]
    /\ \E f \in [HedgeDates -> FVals], wider \in BOOLEAN :
          index = IndexTable(f, wider)
    /\ shifted_sign = << >> /\ beta = << >> /\ hedged_ret = << >>
    /\ stats_beta = << >>

\* shifted_sign = index.shift(1).apply(lambda x: 1 if x > 0 else -1)
H_Sign ==
    /\ hpc = "L119"
    /\ shifted_sign' = ShiftedSign(index)
    /\ hpc' = "L124"
    /\ UNCHANGED <<h_ret, index, beta, hedged_ret, stats_beta, nothed>>

\* index_shifted_sign = index * shifted_sign; factor = pd.concat(...);
\* beta = calc_multiple_beta(factor, ret)
H_Beta ==
    /\ hpc = "L124"
    /\ IF IndicesAligned(h_ret, index)
       THEN /\ beta' = CalcMultipleBeta(index,
                           AlignedOp(RMul, index, shifted_sign), h_ret)
            /\ hpc' = "L125"
       ELSE /\ hpc' = "ValueError"
            /\ UNCHANGED beta
    /\ UNCHANGED <<h_ret, index, shifted_sign, hedged_ret, stats_beta,
                   nothed>>

\* time_varying_beta = beta[0] + beta[1] * shifted_sign
\* hedged_ret = ret - time_varying_beta * index; return hedged_ret
H_Hedge ==
    /\ hpc = "L125"
    /\ IF Len(beta) >= 2
       THEN /\ hedged_ret' = HedgedRet(h_ret,
                                 TimeVaryingBeta(beta, shifted_sign), index)
            /\ hpc' = "returned"
       ELSE /\ hpc' = "IndexError"
            /\ UNCHANGED hedged_ret
    /\ UNCHANGED <<h_ret, index, shifted_sign, beta, stats_beta,
                   nothed>>

\* summary_stats: stats['Beta'] = df.apply(lambda x: calc_beta(index, x))
S_Beta ==
    /\ hpc = "returned"
    /\ IF ~IndicesAligned(hedged_ret, index)
       THEN hpc' = "ValueError" /\ UNCHANGED stats_beta
       ELSE IF Len(CalcBetaParams(index, hedged_ret)) < 2
       THEN hpc' = "IndexError" /\ UNCHANGED stats_beta
       ELSE /\ stats_beta' = <<CalcBetaParams(index, hedged_ret)[2]>>
            /\ hpc' = "stats"
    /\ UNCHANGED <<h_ret, index, shifted_sign, beta, hedged_ret,
                   nothed>>

NextHedge == H_Sign \/ H_Beta \/ H_Hedge \/ S_Beta

SpecHedge == InitHedge /\ [][NextHedge]_vars

\* ------------------------------------------------------------------------
\* calc_reverse_strategy_industry / calc_reverse_strategy_individual and
\* the raw return table of calc_reversal_strategy.__main__.  The frame keys
\* type_col and ret_col stand for the column names a wrapper passes on.
\* ------------------------------------------------------------------------
\* a column as a stored sequence, every cell computed once
RECURSIVE Stored(_, _)
Stored(col, n) == IF n = 0 THEN << >> ELSE Append(Stored(col, n - 1), col[n])

RECURSIVE WithLags(_, _)
WithLags(f, k) ==
    IF k = 0 THEN f
    ELSE SetCol(WithLags(f, k - 1), LagName(k), Stored(LagCol(f, k), NRows(f)))

\* the frame calc_reverse_strategy_ret leaves behind: every derived column
EngineFrame(f) ==
    LET f1 == SetCol(f, "ret-avg", Stored(DemeanCol(f), NRows(f)))
        f2 == SetCol(f1, "w", Stored(WeightCol(f1), NRows(f)))
        f3 == WithLags(f2, NLags)
    IN  SetCol(f3, "rev_ret", Stored(RevRetCol(f3), NRows(f)))

CalcReverseStrategyRet(f) == GroupSumByDate(EngineFrame(f))

\* df.unstack().reset_index(); df.columns = ["industry", "date", "ret"]:
\* one row per (column, date) of the wide table, column-major
Unstack(W) ==
    LET n == Len(W.date)
        es == SortDates(DOMAIN W.v)
        m == Len(es) * n
    IN  ("date" :> [p \in 1..m |-> W.date[((p - 1) % n) + 1]])
     @@ (type_col :> [p \in 1..m |-> es[((p - 1) \div n) + 1]])
     @@ (ret_col :>
            [p \in 1..m |-> W.v[es[((p - 1) \div n) + 1]][((p - 1) % n) + 1]])

\* df[ret_col] *= 100
Times100(f) ==
    SetCol(f, ret_col, [p \in Rows(f) |-> RMul(f[ret_col][p], R(100))])

\* rev_ret[(rev_ret.index >= start) & (rev_ret.index <= end)]
\* variant: the end date excluded
Window_open(S, lo, hi) ==
    [d \in {x \in DOMAIN S : x >= lo /\ x < hi} |-> S[d]]

Window(S, lo, hi) ==
    [d \in {x \in DOMAIN S : x >= lo /\ x <= hi} |-> S[d]]

RawCols == {"Transact. prices", "Quote-midpoints", "Industry portfolio"}

CellOrNa(S, d) == IF d \in DOMAIN S THEN S[d] ELSE NaN

RawRow(t, m, ind, d) ==
    [date |-> d,
     v |-> ("Transact. prices" :> CellOrNa(t, d))
        @@ ("Quote-midpoints" :> CellOrNa(m, d))
        @@ ("Industry portfolio" :> CellOrNa(ind, d))]

\* pd.concat([ret_transact, ret_midpoint, ret_industry], axis=1)
\* variant: join='inner'
ConcatRaw_inner(t, m, ind) ==
    LET ds == SortDates(DOMAIN t \cap DOMAIN m \cap DOMAIN ind)
    IN  [p \in 1..Len(ds) |-> RawRow(t, m, ind, ds[p])]

\* the outer join of the three date indexes, in date order
ConcatRaw(t, m, ind) ==
    LET ds == SortDates(DOMAIN t \cup DOMAIN m \cup DOMAIN ind)
    IN  [p \in 1..Len(ds) |-> RawRow(t, m, ind, ds[p])]

\* ------------------------------------------------------------------------
\* Tables handed to the wrappers
\* ------------------------------------------------------------------------
RECURSIVE RowsOffDate(_, _, _)
RowsOffDate(f, d, n) ==
    IF n = 0 THEN << >>
    ELSE RowsOffDate(f, d, n - 1)
             \o (IF f["date"][n] # d THEN <<n>> ELSE << >>)

TakeRows(f, idx) ==
    [c \in DOMAIN f |-> [p \in 1..Len(idx) |-> f[c][idx[p]]]]

\* the panel without any row of date d
DropDate(f, d) == TakeRows(f, RowsOffDate(f, d, NRows(f)))

\* the panel with row p stored twice
DupRow(f, p) ==
    IF p = 0 THEN f
    ELSE TakeRows(f, [q \in 1..(NRows(f) + 1) |-> IF q <= p THEN q ELSE q - 1])

\* CRSP returns are fractions; the wrapper turns them into percent
Fractions(f) ==
    SetCol(f, ret_col, [p \in Rows(f) |-> RDiv(f[ret_col][p], R(100))])

\* Fama-French industry returns, wide: one column per industry, in percent
WideTable(miss) ==
    LET ds == SortDates(Dates \ {miss})
    IN  [date |-> ds,
         v |-> [e \in Entities |-> [k \in 1..Len(ds) |-> R(RetMenu(e, ds[k]))]]]

Calls == <<"industry", "transact", "midpoint">>

InitAgg ==
    /\ EngIdle /\ RegIdle /\ HedIdle /\ FitIdle /\ PerfIdle /\ ParIdle
    /\ CleanIdle
    /\ apc = "engine"
    /\ a_call = 1
    /\ \E missI \in {0, 1, NumDates}, g \in {0, 3}, lay \in {"entity", "date"},
          dup \in {0, 4}, missM \in {0, 2, NumDates} :
          a_in = ("industry" :> WideTable(missI))
              @@ ("transact" :>
                    DupRow(Fractions(Panel([e \in Entities |-> e],
                                           [e \in Gapped |-> g],
                                           [e \in Late |-> 1], lay)), dup))
              @@ ("midpoint" :>
                    DropDate(Fractions(Panel([e \in Entities |-> (e % 3) + 1],
                                             [e \in Gapped |-> 0],
                                             [e \in Late |-> MaxStart],
                                             "entity")), missM))
    /\ a_out = [u \in {"industry", "transact", "midpoint"} |-> << >>]
    /\ a_rev = [u \in {"industry", "transact", "midpoint"} |-> << >>]
    /\ a_start \in 1..2
    /\ a_end \in (NumDates - 1)..NumDates
    /\ ret_raw = << >>

\* the rows a wrapper hands to calc_reverse_strategy_ret: all of them, the
\* start and end dates are not applied before the call
\* variant: the panel cut to [start, end] before the engine runs
EngineInput_truncated(f, lo, hi) ==
    LET RECURSIVE within(_)
        within(n) ==
            IF n = 0 THEN << >>
            ELSE within(n - 1)
                     \o (IF lo <= f["date"][n] /\ f["date"][n] <= hi
                         THEN <<n>> ELSE << >>)
    IN  TakeRows(f, within(NRows(f)))

EngineInput(f, lo, hi) == f

\* the wrapper up to rev_ret = calc_reverse_strategy_ret(df, ...): the
\* industry table is reshaped into a new frame, the stock panel is scaled
\* and extended in place
A_Engine ==
    /\ apc = "engine"
    /\ LET u == Calls[a_call]
           f == IF u = "industry" THEN Unstack(a_in[u]) ELSE Times100(a_in[u])
           g == EngineInput(f, a_start, a_end)
       IN  /\ a_out' = [a_out EXCEPT ![u] = CalcReverseStrategyRet(g)]
           /\ a_in' = IF u = "industry" THEN a_in
                      ELSE [a_in EXCEPT ![u] = EngineFrame(g)]
    /\ apc' = "window"
    /\ UNCHANGED <<a_call, a_rev, a_start, a_end, ret_raw, notagg>>

\* return rev_ret[(rev_ret.index >= start) & (rev_ret.index <= end)]
A_Window ==
    /\ apc = "window"
    /\ a_rev' = [a_rev EXCEPT ![Calls[a_call]] =
                    Window(a_out[Calls[a_call]], a_start, a_end)]
    /\ a_call' = a_call + 1
    /\ apc' = IF a_call = Len(Calls) THEN "concat" ELSE "engine"
    /\ UNCHANGED <<a_in, a_out, a_start, a_end, ret_raw, notagg>>

\* ret_raw = pd.concat([ret_transact, ret_midpoint, ret_industry], axis=1)
A_Concat ==
    /\ apc = "concat"
    /\ ret_raw' = ConcatRaw(a_rev["transact"], a_rev["midpoint"],
                            a_rev["industry"])
    /\ apc' = "done"
    /\ UNCHANGED <<a_call, a_in, a_out, a_rev, a_start, a_end, notagg>>

NextAgg == A_Engine \/ A_Window \/ A_Concat

SpecAgg == InitAgg /\ [][NextAgg]_vars

\* ------------------------------------------------------------------------
\* calc_reverse_strategy_ret on a panel whose rows arrive in any order (the
\* CRSP query of load_CRSP_stock has no ORDER BY and no step sorts)
\* ------------------------------------------------------------------------
\* the panel with its rows moved k places round (k = 0: as stored)
Rotated(f, k) ==
    TakeRows(f, [p \in 1..NRows(f) |-> ((p - 1 + k) % NRows(f)) + 1])

\* the panel with its rows in the opposite order
Reversed(f) == TakeRows(f, [p \in 1..NRows(f) |-> NRows(f) + 1 - p])

InitPerm ==
    /\ pc = "L32"
    /\ i = 1
    /\ \E m \in Menu, layout \in {"entity", "date"} :
          LET f == Panel([e \in Entities |-> ((e + m) % 3) + 1],
                         [e \in Gapped |-> 0], [e \in Late |-> 1], layout)
          IN  \/ \E k \in 0..(NRows(f) - 1) : df = Rotated(f, k)
              \/ df = Reversed(f)
    /\ out = << >>
    /\ RegIdle
    /\ RestIdle

SpecPerm == InitPerm /\ [][Next]_vars

\* ------------------------------------------------------------------------
\* Two invocations of calc_reverse_strategy_ret, one per return column, run
\* statement by statement in any interleaving, on one panel object or two
\* ------------------------------------------------------------------------
Invocations == {"transact", "midpoint"}

\* the ret_col argument of each invocation (calc_reversal_strategy.py:276-277)
RetColOf(u) == IF u = "transact" THEN "retx" ELSE "quote_midpoint_return"

\* the frame as the invocation u reads it: its ret_col argument names the
\* return column
View(f, u) == SetCol(f, ret_col, f[RetColOf(u)])

\* a stock panel with both return columns
TwoColumnPanel(m, layout) ==
    LET a == Panel([e \in Entities |-> ((e + m) % 3) + 1],
                   [e \in Gapped |-> 0], [e \in Late |-> 1], layout)
        b == Panel([e \in Entities |-> ((e + m + 1) % 3) + 1],
                   [e \in Gapped |-> 0], [e \in Late |-> 1], layout)
    IN  SetCol(a, "quote_midpoint_return", b[ret_col])

InitPar ==
    /\ EngIdle /\ RegIdle /\ HedIdle /\ AggIdle /\ FitIdle /\ PerfIdle
    /\ CleanIdle
    /\ cpc = [u \in Invocations |-> "L32"]
    /\ ci = [u \in Invocations |-> 1]
    /\ cout = [u \in Invocations |-> << >>]
    /\ \E m \in Menu, layout \in {"entity", "date"} :
          \/ /\ cpanel = [u \in Invocations |-> "dfcp"]
             /\ cdf = [x \in {"dfcp"} |-> TwoColumnPanel(m, layout)]
          \/ /\ cpanel = [u \in Invocations |->
                            IF u = "transact" THEN "dfcp" ELSE "dfmid"]
             /\ cdf = [x \in {"dfcp", "dfmid"} |-> TwoColumnPanel(m, layout)]

\* the frame of invocation u after assigning column c
Assign(u, c, col) ==
    [cdf EXCEPT ![cpanel[u]] = SetCol(@, c, Stored(col, NRows(@)))]

C_Demean(u) ==
    /\ cpc[u] = "L32"
    /\ cdf' = Assign(u, "ret-avg", DemeanCol(View(cdf[cpanel[u]], u)))
    /\ cpc' = [cpc EXCEPT ![u] = "L33"]
    /\ UNCHANGED <<ci, cpanel, cout, notpar>>

C_Weight(u) ==
    /\ cpc[u] = "L33"
    /\ cdf' = Assign(u, "w", WeightCol(cdf[cpanel[u]]))
    /\ cpc' = [cpc EXCEPT ![u] = "L36"]
    /\ ci' = [ci EXCEPT ![u] = 1]
    /\ UNCHANGED <<cpanel, cout, notpar>>

C_LagLoop(u) ==
    /\ cpc[u] = "L36"
    /\ cdf' = Assign(u, LagName(ci[u]), LagCol(cdf[cpanel[u]], ci[u]))
    /\ IF ci[u] < NLags
       THEN ci' = [ci EXCEPT ![u] = @ + 1] /\ cpc' = cpc
       ELSE ci' = ci /\ cpc' = [cpc EXCEPT ![u] = "L38"]
    /\ UNCHANGED <<cpanel, cout, notpar>>

C_RevRet(u) ==
    /\ cpc[u] = "L38"
    /\ cdf' = Assign(u, "rev_ret", RevRetCol(View(cdf[cpanel[u]], u)))
    /\ cpc' = [cpc EXCEPT ![u] = "L40"]
    /\ UNCHANGED <<ci, cpanel, cout, notpar>>

C_GroupSum(u) ==
    /\ cpc[u] = "L40"
    /\ cout' = [cout EXCEPT ![u] = GroupSumByDate(cdf[cpanel[u]])]
    /\ cpc' = [cpc EXCEPT ![u] = "done"]
    /\ UNCHANGED <<ci, cpanel, cdf, notpar>>

NextPar ==
    \E u \in Invocations :
        C_Demean(u) \/ C_Weight(u) \/ C_LagLoop(u) \/ C_RevRet(u)
            \/ C_GroupSum(u)

SpecPar == InitPar /\ [][NextPar]_vars

\* ------------------------------------------------------------------------
\* regression_hac(data, y_col, x_cols, maxlags) and generate_table
\* ------------------------------------------------------------------------
MaxLagsDaily == 20

MaxLagsMonthly == 3

TableCol(tab, c) == [p \in 1..Len(tab) |-> tab[p].v[c]]

\* the regressors of the fit: sm.add_constant(X) puts the intercept first,
\* unless a column of X is already a non-zero constant
Regressors(tab, x_cols) ==
    IF AddsConstant([k \in 1..Len(x_cols) |-> TableCol(tab, x_cols[k])])
    THEN <<"Intercept">> \o x_cols ELSE x_cols

\* sm.OLS(y, X) on a table without rows raises ValueError ("zero-size array
\* to reduction operation"); any other table is accepted, whatever its
\* number of rows
OLSRaises(tab) == Len(tab) = 0

\* sm.OLS(y, X).fit(cov_type='HAC', cov_kwds={'maxlags': maxlags})
RegressionHac(tab, y_col, x_cols, maxlags) ==
    [y |-> y_col, x |-> Regressors(tab, x_cols), maxlags |-> maxlags,
     nobs |-> Len(tab)]

\* regression_all: the four models of a universe
\* variant: the monthly model fitted with the default maxlags
RegressionAll_defaultlags ==
    << [freq |-> "Daily", x |-> <<"VIX">>, maxlags |-> MaxLagsDaily],
       [freq |-> "Daily", x |-> <<"VIX", "Pre-decim.">>,
        maxlags |-> MaxLagsDaily],
       [freq |-> "Daily", x |-> <<"VIX", "Pre-decim.", "$R_M$">>,
        maxlags |-> MaxLagsDaily],
       [freq |-> "Monthly", x |-> <<"VIX", "Pre-decim.", "$R_M$">>,
        maxlags |-> MaxLagsDaily] >>

RegressionAll ==
    << [freq |-> "Daily", x |-> <<"VIX">>, maxlags |-> MaxLagsDaily],
       [freq |-> "Daily", x |-> <<"VIX", "Pre-decim.">>,
        maxlags |-> MaxLagsDaily],
       [freq |-> "Daily", x |-> <<"VIX", "Pre-decim.", "$R_M$">>,
        maxlags |-> MaxLagsDaily],
       [freq |-> "Monthly", x |-> <<"VIX", "Pre-decim.", "$R_M$">>,
        maxlags |-> MaxLagsMonthly] >>

\* generate_table: results_trade, results_quote, results_industry
YCols == <<"trade", "quote", "industry">>

\* the column headers of lines 140-153
Columns ==
    << [group |-> "Transaction-price returns", freq |-> "Daily", label |-> 1],
       [group |-> "Transaction-price returns", freq |-> "Daily", label |-> 2],
       [group |-> "Transaction-price returns", freq |-> "Daily", label |-> 3],
       [group |-> "Transaction-price returns", freq |-> "Monthly", label |-> 4],
       [group |-> "Quote-midpoint returns", freq |-> "Daily", label |-> 5],
       [group |-> "Quote-midpoint returns", freq |-> "Daily", label |-> 6],
       [group |-> "Quote-midpoint returns", freq |-> "Daily", label |-> 7],
       [group |-> "Quote-midpoint returns", freq |-> "Monthly", label |-> 8],
       [group |-> "Industry portfolios", freq |-> "Daily", label |-> 9],
       [group |-> "Industry portfolios", freq |-> "Daily", label |-> 10],
       [group |-> "Industry portfolios", freq |-> "Daily", label |-> 11],
       [group |-> "Industry portfolios", freq |-> "Monthly", label |-> 12] >>

\* summary_col(results_trade + results_quote + results_industry, ...): one
\* column per fitted model, holding a coefficient in the row of each of its
\* regressors
SummaryCol(rs) ==
    [k \in 1..Len(rs) |->
        [y |-> rs[k].y, coef |-> {rs[k].x[j] : j \in 1..Len(rs[k].x)}]]

\* table.columns = columns
SetColumns(tab, cols) ==
    [k \in 1..Len(tab) |->
        [head |-> cols[k], y |-> tab[k].y, coef |-> tab[k].coef]]

\* stored strategy returns that end on day hi
RetUpTo(hi) ==
    [d \in 1..hi |->
        [date |-> d,
         v |-> [u \in Universes |->
                  R(d + (IF u = "trade" THEN 10
                         ELSE IF u = "quote" THEN 20 ELSE 30))]]]

\* the first day that has every lagged daily predictor
FirstDesignDay == RollWindow + lag

InitFit ==
    /\ EngIdle /\ HedIdle /\ AggIdle /\ PerfIdle /\ ParIdle
    /\ CleanIdle
    /\ rpc = "call"
    /\ to_monthly = FALSE
    /\ \E hi \in (FirstDesignDay - 1)..NumDays : ret_in = RetUpTo(hi)
    /\ ret = ret_in
    /\ vix = VixTable(0)
    /\ rm = RmTable
    /\ l_ret = << >> /\ l_vix = << >> /\ l_rm = << >> /\ l_g = << >>
    /\ data = << >> /\ data_m = << >>
    /\ gpc = "fit" /\ g_univ = 1 /\ g_model = 1
    /\ results = << >> /\ table = << >>

\* one regression_hac call of regression_all, in the order of lines 99-105
\* within the order of lines 113-115
GT_Fit ==
    /\ rpc = "done"
    /\ gpc = "fit"
    /\ LET m == RegressionAll[g_model]
           tab == IF m.freq = "Daily" THEN data ELSE data_m
           r == RegressionHac(tab, YCols[g_univ], m.x, m.maxlags)
       IN  IF OLSRaises(tab)
           THEN /\ gpc' = "ValueError"
                /\ UNCHANGED <<g_univ, g_model, results>>
           ELSE /\ results' = Append(results, r)
                /\ IF g_model < Len(RegressionAll)
                   THEN g_model' = g_model + 1 /\ UNCHANGED <<g_univ, gpc>>
                   ELSE IF g_univ < Len(YCols)
                   THEN g_model' = 1 /\ g_univ' = g_univ + 1 /\ UNCHANGED gpc
                   ELSE gpc' = "table" /\ UNCHANGED <<g_univ, g_model>>
    /\ UNCHANGED <<table, notfit>>

\* table = summary_col(...).tables[0]; table.columns = columns; return table
GT_Table ==
    /\ gpc = "table"
    /\ IF Len(results) = Len(Columns)
       THEN table' = SetColumns(SummaryCol(results), Columns) /\ gpc' = "done"
       ELSE table' = table /\ gpc' = "ValueError"
    /\ UNCHANGED <<g_univ, g_model, results, notfit>>

NextFit == PD_DropNa \/ PD_Scale \/ PD_Lag \/ PD_Concat \/ GT_Fit \/ GT_Table

SpecFit == InitFit /\ [][NextFit]_vars

\* ------------------------------------------------------------------------
\* performance_summary: wealth index, drawdown, peak, bottom, recovery
\* (the columns are processed independently; dates are 1..Len(return_data))
\* ------------------------------------------------------------------------
NumPerfDates == 5

\* daily returns in percent
ReturnMenu == {-50, 0, 100}

RLe(x, y) == IsFin(x) /\ IsFin(y) /\ x.n * y.d <= y.n * x.d

RLt(x, y) == IsFin(x) /\ IsFin(y) /\ x.n * y.d < y.n * x.d

\* (1 + return_data / 100).cumprod()
RECURSIVE CumProd(_, _)
CumProd(r, t) ==
    IF t = 0 THEN << >>
    ELSE LET before == CumProd(r, t - 1)
             g == RAdd(R(1), RDiv(r[t], R(100)))
         IN  Append(before,
                    IF t = 1 THEN g ELSE RMul(before[t - 1], g))

\* wealth_index.cummax()
RECURSIVE CumMax(_, _)
CumMax(w, t) ==
    IF t = 0 THEN << >>
    ELSE LET before == CumMax(w, t - 1)
         IN  Append(before,
                    IF t = 1 \/ RLt(before[t - 1], w[t]) THEN w[t]
                    ELSE before[t - 1])

\* (wealth_index - previous_peaks) / previous_peaks
Drawdowns(w, pk) ==
    [t \in 1..Len(w) |-> RDiv(RSub(w[t], pk[t]), pk[t])]

\* Series.min(), Series.max() over the dates in T
MinOver(x, T) == CHOOSE v \in {x[t] : t \in T} : \A t \in T : RLe(v, x[t])

MaxOver(x, T) == CHOOSE v \in {x[t] : t \in T} : \A t \in T : RLe(x[t], v)

\* Series.idxmin(), Series.idxmax(): the first date of the extreme
IdxMin(x, T) == CHOOSE t \in T : x[t] = MinOver(x, T) /\ \A u \in T : x[u] = MinOver(x, T) => t <= u

IdxMax(x, T) == CHOOSE t \in T : x[t] = MaxOver(x, T) /\ \A u \in T : x[u] = MaxOver(x, T) => t <= u

\* '{:.2f}'.format(x): the sign and the hundredths printed, the binary value
\* rounded half to even
Format2(x) ==
    LET a == 100 * Abs(x.n)
        q == a \div x.d
        r == a % x.d
        h == IF 2 * r < x.d THEN q
             ELSE IF 2 * r > x.d THEN q + 1
             ELSE IF q % 2 = 0 THEN q ELSE q + 1
    IN  [neg |-> x.n < 0, hundredths |-> h]

\* previous_peaks[col][:drawdowns[col].idxmin()].idxmax()
\* variant: the peak taken over the whole sample
PeakDate_whole(pk, low) == IdxMax(pk, 1..Len(pk))

PeakDate(pk, low) == IdxMax(pk, 1..low)

\* Index.min() of no date at all
NaT == 0

\* the recovery test of line 54
\* variant: wealth must exceed the previous maximum
Recovered_strict(w, prev_max) == RLt(prev_max, w)

Recovered(w, prev_max) == RLe(prev_max, w)

\* lines 51-54
\* variant: the last date of the sample stands for a recovery never reached
RecoveryDate_sentinel(w, pk, dd) ==
    LET T == 1..Len(w)
        low == IdxMin(dd, T)
        prev_max == MaxOver(pk, 1..low)
        rec == {t \in low..Len(w) : Recovered(w[t], prev_max)}
    IN  IF rec = {} THEN Len(w) ELSE CHOOSE t \in rec : \A u \in rec : t <= u

RecoveryDate(w, pk, dd) ==
    LET T == 1..Len(w)
        low == IdxMin(dd, T)
        prev_max == MaxOver(pk, 1..low)
        rec == {t \in low..Len(w) : Recovered(w[t], prev_max)}
    IN  IF rec = {} THEN NaT ELSE CHOOSE t \in rec : \A u \in rec : t <= u

InitPerf ==
    /\ EngIdle /\ RegIdle /\ HedIdle /\ AggIdle /\ FitIdle /\ ParIdle
    /\ CleanIdle
    /\ ppc = "L40"
    /\ \E n \in 1..NumPerfDates :
          return_data \in [1..n -> {R(v) : v \in ReturnMenu}]
    /\ wealth_index = << >> /\ previous_peaks = << >> /\ drawdowns = << >>
    /\ max_drawdown = << >>
    /\ peak = 0 /\ bottom = 0 /\ recovery_date = 0 /\ duration = << >>

\* lines 40-42
P_Wealth ==
    /\ ppc = "L40"
    /\ LET w == CumProd(return_data, Len(return_data))
           pk == CumMax(w, Len(w))
       IN  /\ wealth_index' = w
           /\ previous_peaks' = pk
           /\ drawdowns' = Drawdowns(w, pk)
    /\ ppc' = "L44"
    /\ UNCHANGED <<return_data, max_drawdown, peak, bottom, recovery_date,
                   duration, notperf>>

\* lines 44-45
P_MaxDrawdown ==
    /\ ppc = "L44"
    /\ max_drawdown' =
          <<Format2(MinOver(drawdowns, 1..Len(drawdowns)))>>
    /\ ppc' = "L46"
    /\ UNCHANGED <<return_data, wealth_index, previous_peaks, drawdowns,
                   peak, bottom, recovery_date, duration, notperf>>

\* lines 46-47
P_PeakBottom ==
    /\ ppc = "L46"
    /\ LET low == IdxMin(drawdowns, 1..Len(drawdowns))
       IN  /\ peak' = PeakDate(previous_peaks, low)
           /\ bottom' = low
    /\ ppc' = "L49"
    /\ UNCHANGED <<return_data, wealth_index, previous_peaks, drawdowns,
                   max_drawdown, recovery_date, duration, notperf>>

\* lines 49-55
P_Recovery ==
    /\ ppc = "L49"
    /\ recovery_date' = RecoveryDate(wealth_index, previous_peaks, drawdowns)
    /\ ppc' = "L57"
    /\ UNCHANGED <<return_data, wealth_index, previous_peaks, drawdowns,
                   max_drawdown, peak, bottom, duration, notperf>>

\* lines 57-66: (NaT - peak).days is NaN
P_Duration ==
    /\ ppc = "L57"
    /\ duration' = IF recovery_date = NaT THEN <<"NaN">>
                   ELSE <<recovery_date - peak>>
    /\ ppc' = "returned"
    /\ UNCHANGED <<return_data, wealth_index, previous_peaks, drawdowns,
                   max_drawdown, peak, bottom, recovery_date, notperf>>

NextPerf ==
    P_Wealth \/ P_MaxDrawdown \/ P_PeakBottom \/ P_Recovery \/ P_Duration

SpecPerf == InitPerf /\ [][NextPerf]_vars

\* ------------------------------------------------------------------------
\* clean_CRSP_stock: the cleaning steps, in the order of its __main__, and
\* the first statement of calc_reverse_strategy_individual on each result.
\* Calendar: month 1 is December 1997 (the extra month pulled for cleaning),
\* the later months are months of 1998.
\* ------------------------------------------------------------------------
NumCleanMonths == 3

CleanDaysPerMonth == 2

CleanDays == 1..(NumCleanMonths * CleanDaysPerMonth)

Period(d) == ((d - 1) \div CleanDaysPerMonth) + 1

IsMonthEnd(d) == d % CleanDaysPerMonth = 0

YearOf(d) == IF Period(d) = 1 THEN 1997 ELSE 1998

Stocks == {1, 2}

\* prc of the daily file: a closing price, or a bid/ask average with a
\* negative sign
PrcMenu(m, d) ==
    CASE m = 1 -> R(2)
      [] m = 2 -> IF d = CleanDaysPerMonth THEN Half ELSE R(2)
      [] m = 3 -> IF IsMonthEnd(d) THEN R(1) ELSE R(2)
      [] m = 4 -> IF IsMonthEnd(d) THEN R(2) ELSE Half
      [] m = 5 -> IF d = NumCleanMonths * CleanDaysPerMonth THEN Half ELSE R(2)
      [] OTHER -> R(-2)

\* closing bid and ask as multiples of the price: <<bid, ask>>
QuoteMenu(q, x, d) ==
    CASE q = 2 /\ d = 3 -> <<RDiv(x, R(4)), RDiv(RMul(R(7), x), R(4))>>
      [] q = 3 /\ d = 4 -> <<RMul(R(3), x), RMul(R(3), x)>>
      [] OTHER -> <<x, x>>

\* the daily file: one row per stock and day, stocks one after the other,
\* days ascending; "(index)" is the row label
DailyFile(pm, qm, ex) ==
    LET n == Cardinality(CleanDays)
        rows == 1..(Cardinality(Stocks) * n)
        e(p) == ((p - 1) \div n) + 1
        d(p) == ((p - 1) % n) + 1
        x(p) == PrcMenu(pm[e(p)], d(p))
    IN  ("(index)" :> [p \in rows |-> p - 1])
     @@ ("date" :> [p \in rows |-> d(p)])
     @@ ("permno" :> [p \in rows |-> e(p)])
     @@ ("exchcd" :> [p \in rows |-> ex[e(p)]])
     @@ ("prc" :> [p \in rows |-> x(p)])
     @@ ("bid" :> [p \in rows |-> QuoteMenu(qm[e(p)], RAbs(x(p)), d(p))[1]])
     @@ ("ask" :> [p \in rows |-> QuoteMenu(qm[e(p)], RAbs(x(p)), d(p))[2]])
     @@ ("retx" :> [p \in rows |-> Rat(d(p), 100)])

\* the positions where a boolean column is true, ascending
RECURSIVE Where(_, _)
Where(mask, n) ==
    IF n = 0 THEN << >>
    ELSE Where(mask, n - 1) \o (IF mask[n] THEN <<n>> ELSE << >>)

\* df[mask]
FilterBy(f, mask) ==
    LET idx == Where(mask, NRows(f))
    IN  [c \in DOMAIN f |-> [p \in 1..Len(idx) |-> f[c][idx[p]]]]

\* df.drop(columns=cs)
DropCols(f, cs) == [c \in DOMAIN f \ cs |-> f[c]]

\* clean_prc_to_positive: df['prc'] = np.abs(df['prc']), in place
PrcToPositive(f) == SetCol(f, "prc", [p \in Rows(f) |-> RAbs(f["prc"][p])])

\* astype(str) of a permno
Str(n) == [str |-> n]

\* df['period'] = df['date'].dt.to_period('M'), in place
WithPeriod(f) == SetCol(f, "period", [p \in Rows(f) |-> Period(f["date"][p])])

\* df['key'] = df['permno'].astype(str), in place
WithKey(f) == SetCol(f, "key", [p \in Rows(f) |-> Str(f["permno"][p])])

\* groupby(['permno', 'period'], as_index=False).last(): per group the row
\* stored last; then the groups with prc < 1, their period moved on by one
BelowOneDollar(f) ==
    LET last(p) == \A q \in Rows(f) :
                       (f["permno"][q] = f["permno"][p]
                           /\ f["period"][q] = f["period"][p]) => q <= p
    IN  {[permno |-> f["permno"][p], period |-> f["period"][p] + 1,
          key |-> Str(f["permno"][p])] :
            p \in {q \in Rows(f) : last(q) /\ RLt(f["prc"][q], R(1))}}

\* clean_1dollar_prc: the frame it returns
Clean1DollarPrc(f) ==
    LET g == WithKey(WithPeriod(f))
        keys == {r.key : r \in BelowOneDollar(WithPeriod(f))}
    IN  DropCols(FilterBy(g, [p \in Rows(g) |-> g["key"][p] \notin keys]),
                 {"key", "period"})

\* clean_date: the years start_year..end_year
CleanDate(f, start_year, end_year) ==
    FilterBy(f, [p \in Rows(f) |->
                    YearOf(f["date"][p]) >= start_year
                        /\ YearOf(f["date"][p]) <= end_year])

\* df.reset_index(): the old labels become the column 'index'
ResetIndex(f) ==
    SetCol(SetCol(f, "index", f["(index)"]),
           "(index)", [p \in Rows(f) |-> p - 1])

\* df[df['exchcd'] == 3]
Nasdaq(f) == FilterBy(f, [p \in Rows(f) |-> f["exchcd"][p] = 3])

\* df['quote_midpoint'] = (df['bid'] + df['ask']) / 2
WithQuoteMidpoint(f) ==
    SetCol(f, "quote_midpoint",
           [p \in Rows(f) |-> RDiv(RAdd(f["bid"][p], f["ask"][p]), R(2))])

\* clean_bid_quote_midpoint: bid / quote_midpoint >= 0.5
CleanBidQuoteMidpoint(f) ==
    FilterBy(f, [p \in Rows(f) |->
                    RLe(Half, RDiv(f["bid"][p], f["quote_midpoint"][p]))])

\* groupby('permno')[col].pct_change(): against the stock's previous row
PctChange(f, col) ==
    [p \in Rows(f) |->
        LET before == {q \in Group(f, "permno", p) : q < p}
        IN  IF before = {} THEN NaN
            ELSE RSub(RDiv(f[col][p],
                           f[col][CHOOSE q \in before :
                                      \A x \in before : x <= q]),
                      R(1))]

\* clean_one_day_return: both return columns are added, the rows are
\* filtered on their difference, and both columns are dropped again
CleanOneDayReturn(f) ==
    LET f1 == SetCol(f, "prc",
                     [p \in Rows(f) |->
                         IF IsNaN(f["prc"][p]) THEN f["quote_midpoint"][p]
                         ELSE f["prc"][p]])
        f2 == SetCol(f1, "transaction_price_return",
                     Stored(PctChange(f1, "prc"), NRows(f)))
        f3 == SetCol(f2, "quote_midpoint_return",
                     Stored(PctChange(f2, "quote_midpoint"), NRows(f)))
        diff == [p \in Rows(f) |->
                    RSub(f3["quote_midpoint_return"][p],
                         f3["transaction_price_return"][p])]
    IN  DropCols(FilterBy(f3, [p \in Rows(f) |->
                                 RLe(Rat(-1, 2), diff[p]) /\ RLe(diff[p], R(1))]),
                 {"transaction_price_return", "quote_midpoint_return"})

InitClean ==
    /\ EngIdle /\ RegIdle /\ HedIdle /\ AggIdle /\ FitIdle /\ PerfIdle
    /\ ParIdle
    /\ kpc = "cp_positive"
    /\ \E pm1 \in 1..6, qm1 \in 1..3, pm2 \in {1, 2, 5}, ex \in [Stocks -> {1, 3}] :
          df_dsf = DailyFile(<<pm1, pm2>>, <<qm1, 1>>, ex)
    /\ k_df = << >> /\ k_arg = << >>
    /\ df_closing_prices = << >> /\ df_midpoint = << >>

\* df = clean_prc_to_positive(df): the caller's frame is changed in place
K_Positive ==
    /\ kpc \in {"cp_positive", "mid_positive"}
    /\ df_dsf' = PrcToPositive(df_dsf)
    /\ k_df' = df_dsf'
    /\ kpc' = IF kpc = "cp_positive" THEN "cp_1dollar" ELSE "mid_nasdaq"
    /\ UNCHANGED <<k_arg, df_closing_prices, df_midpoint, notclean>>

\* df = clean_1dollar_prc(df): 'period' and 'key' are added to the frame it
\* is given, a new frame is returned
K_OneDollar ==
    /\ kpc \in {"cp_1dollar", "mid_1dollar"}
    /\ k_arg' = k_df
    /\ k_df' = Clean1DollarPrc(k_df)
    /\ df_dsf' = IF kpc = "cp_1dollar" THEN WithKey(WithPeriod(df_dsf))
                 ELSE df_dsf
    /\ kpc' = IF kpc = "cp_1dollar" THEN "cp_date" ELSE "mid_date"
    /\ UNCHANGED <<df_closing_prices, df_midpoint, notclean>>

\* df = clean_date(df, start_year=1998, end_year=2024)
K_Date ==
    /\ kpc \in {"cp_date", "mid_date"}
    /\ k_df' = CleanDate(k_df, 1998, 2024)
    /\ kpc' = IF kpc = "cp_date" THEN "cp_reset" ELSE "mid_reset"
    /\ UNCHANGED <<df_dsf, k_arg, df_closing_prices, df_midpoint, notclean>>

\* return df.reset_index(); the result is written to its parquet file
K_Reset ==
    /\ kpc \in {"cp_reset", "mid_reset"}
    /\ IF kpc = "cp_reset"
       THEN /\ df_closing_prices' = ResetIndex(k_df)
            /\ kpc' = "mid_positive"
            /\ UNCHANGED df_midpoint
       ELSE /\ df_midpoint' = ResetIndex(k_df)
            /\ kpc' = "strategy_cp"
            /\ UNCHANGED df_closing_prices
    /\ UNCHANGED <<df_dsf, k_df, k_arg, notclean>>

\* df = df[df['exchcd'] == 3]
K_Nasdaq ==
    /\ kpc = "mid_nasdaq"
    /\ k_df' = Nasdaq(k_df)
    /\ kpc' = "mid_quote"
    /\ UNCHANGED <<df_dsf, k_arg, df_closing_prices, df_midpoint, notclean>>

K_QuoteMidpoint ==
    /\ kpc = "mid_quote"
    /\ k_df' = WithQuoteMidpoint(k_df)
    /\ kpc' = "mid_bid"
    /\ UNCHANGED <<df_dsf, k_arg, df_closing_prices, df_midpoint, notclean>>

K_BidRatio ==
    /\ kpc = "mid_bid"
    /\ k_df' = CleanBidQuoteMidpoint(k_df)
    /\ kpc' = "mid_oneday"
    /\ UNCHANGED <<df_dsf, k_arg, df_closing_prices, df_midpoint, notclean>>

K_OneDay ==
    /\ kpc = "mid_oneday"
    /\ k_df' = CleanOneDayReturn(k_df)
    /\ kpc' = "mid_1dollar"
    /\ UNCHANGED <<df_dsf, k_arg, df_closing_prices, df_midpoint, notclean>>

\* calc_reverse_strategy_individual(df, ret_col), first statement:
\* df[ret_col] *= 100 raises KeyError when the frame has no such column
K_Strategy ==
    /\ kpc \in {"strategy_cp", "strategy_mid"}
    /\ IF kpc = "strategy_cp"
       THEN IF "retx" \in DOMAIN df_closing_prices
            THEN /\ df_closing_prices' = Times100(df_closing_prices)
                 /\ kpc' = "strategy_mid"
                 /\ UNCHANGED df_midpoint
            ELSE /\ kpc' = "KeyError"
                 /\ UNCHANGED <<df_closing_prices, df_midpoint>>
       ELSE IF "quote_midpoint_return" \in DOMAIN df_midpoint
            THEN /\ df_midpoint' =
                      SetCol(df_midpoint, "quote_midpoint_return",
                             [p \in Rows(df_midpoint) |->
                                 RMul(df_midpoint["quote_midpoint_return"][p],
                                      R(100))])
                 /\ kpc' = "engine"
                 /\ UNCHANGED df_closing_prices
            ELSE /\ kpc' = "KeyError"
                 /\ UNCHANGED <<df_closing_prices, df_midpoint>>
    /\ UNCHANGED <<df_dsf, k_df, k_arg, notclean>>

NextClean ==
    \/ K_Positive \/ K_OneDollar \/ K_Date \/ K_Reset \/ K_Nasdaq
    \/ K_QuoteMidpoint \/ K_BidRatio \/ K_OneDay \/ K_Strategy

SpecClean == InitClean /\ [][NextClean]_vars

\* ------------------------------------------------------------------------
\* Vocabulary of the properties: observations of an entity in period order
\* ------------------------------------------------------------------------
RECURSIVE SumAll(_, _)
SumAll(S, col) ==
    IF S = {} THEN R(0)
    ELSE LET p == CHOOSE q \in S : TRUE
         IN  RAdd(col[p], SumAll(S \ {p}, col))

HasCol(c) == c \in DOMAIN df

PanelDates == {df["date"][p] : p \in Rows(df)}

RowsAt(d) == {p \in Rows(df) : df["date"][p] = d}

EntOf(p) == df[type_col][p]

DateOf(p) == df["date"][p]

RowOf(e, d) == CHOOSE p \in Rows(df) : EntOf(p) = e /\ DateOf(p) = d

\* dates before d at which entity e is observed
PriorDates(e, d) == {DateOf(q) : q \in {x \in Rows(df) : EntOf(x) = e /\ DateOf(x) < d}}

NumPrior(p) == Cardinality(PriorDates(EntOf(p), DateOf(p)))

\* the date of the k-th observation of the entity of row p before row p
KthPrior(p, k) ==
    CHOOSE x \in PriorDates(EntOf(p), DateOf(p)) :
        Cardinality({y \in PriorDates(EntOf(p), DateOf(p)) : y > x}) = k - 1

\* weight the entity of row p had k observations earlier
PriorWeight(p, k) == df["w"][RowOf(EntOf(p), KthPrior(p, k))]

RECURSIVE PriorWeightSum(_, _)
PriorWeightSum(p, k) ==
    IF k = 0 THEN R(0) ELSE RAdd(PriorWeightSum(p, k - 1), PriorWeight(p, k))

HasFivePriorWeights(p) ==
    /\ NumPrior(p) >= NLags
    /\ \A k \in 1..NLags : IsFin(PriorWeight(p, k))

Degenerate(d) == \A p, q \in RowsAt(d) : df[ret_col][p] = df[ret_col][q]

Positive(col) == [p \in DOMAIN col |-> IF col[p].n > 0 THEN col[p] ELSE R(0)]

Negative(col) == [p \in DOMAIN col |-> IF col[p].n < 0 THEN col[p] ELSE R(0)]

\* C1: in every period whose cross-section is not degenerate the weights
\* sum to zero, the positive weights to +1 and the negative weights to -1.
Thm_C1 ==
    HasCol("w") =>
        \A d \in PanelDates :
            ~Degenerate(d) =>
                /\ SumAll(RowsAt(d), df["w"]) = R(0)
                /\ SumAll(RowsAt(d), Positive(df["w"])) = R(1)
                /\ SumAll(RowsAt(d), Negative(df["w"])) = R(-1)

Wit_C1 ==
    /\ HasCol("w")
    /\ \E d \in PanelDates :
        /\ ~Degenerate(d)
        /\ Cardinality(RowsAt(d)) = 3
        /\ \E p \in RowsAt(d) : IsFin(df["w"][p]) /\ df["w"][p].d > 1

FullContribution ==
    [p \in Rows(df) |->
        RDiv(RMul(PriorWeightSum(p, NLags), df[ret_col][p]), R(5))]

\* C2: the return of period t is the sum, over the entities present at t
\* that have five prior weights, of (w_{t-1} + ... + w_{t-5}) * r_t / 5.
Thm_C2 ==
    pc = "done" =>
        \A t \in DOMAIN out :
            out[t] = SumAll({p \in RowsAt(t) : HasFivePriorWeights(p)},
                            FullContribution)

Wit_C2 ==
    /\ pc = "done"
    /\ \E t \in DOMAIN out :
        /\ out[t].n # 0
        /\ Cardinality({p \in RowsAt(t) : HasFivePriorWeights(p)}) >= 2
        /\ \E p \in RowsAt(t) : ~HasFivePriorWeights(p)

\* C3: the returned series has a row only for periods at which some entity
\* has five prior observations.
CE_C3 ==
    pc = "done" =>
        \A t \in DOMAIN out : \E p \in RowsAt(t) : NumPrior(p) >= NLags

\* C4: in a period with a single entity, or with all returns equal, every
\* weight is missing (NaN): no numeric weight is produced.
Thm_C4 ==
    HasCol("w") =>
        \A d \in PanelDates :
            Degenerate(d) => \A p \in RowsAt(d) : IsNaN(df["w"][p])

Wit_C4 ==
    /\ HasCol("w")
    /\ \E d \in PanelDates : Cardinality(RowsAt(d)) = 1 /\ Degenerate(d)
    /\ \E d \in PanelDates : Cardinality(RowsAt(d)) >= 2 /\ Degenerate(d)

AllMissingByDegeneracy(t) ==
    /\ \A p \in RowsAt(t) : IsNaN(df["rev_ret"][p])
    /\ \E p \in RowsAt(t) :
        /\ NumPrior(p) >= NLags
        /\ \E k \in 1..NLags : Degenerate(KthPrior(p, k))

\* C5: when every entity's contribution to a period is missing because of a
\* degenerate cross-section in an earlier period, the aggregate return of
\* that period is missing, not 0.
CE_C5 ==
    pc = "done" =>
        \A t \in DOMAIN out : AllMissingByDegeneracy(t) => IsNaN(out[t])

PartialContribution ==
    [p \in Rows(df) |->
        LET j == IF NumPrior(p) < NLags THEN NumPrior(p) ELSE NLags
        IN  RDiv(RMul(PriorWeightSum(p, j), df[ret_col][p]), R(5))]

\* C6: an entity with j < 5 prior observations contributes
\* (w_{t-1} + ... + w_{t-j}) * r_t / 5 to the return of period t.
CE_C6 ==
    pc = "done" =>
        \A t \in DOMAIN out :
            out[t] = SumSkipNa(RowsAt(t), PartialContribution)

\* C7: the k-th lagged weight of an entity at its n-th observation is its
\* weight at its (n-k)-th observation in period order, whatever the calendar
\* distance and whatever rows of other entities lie in between.
Thm_C7 ==
    pc \in {"L38", "L40", "done"} =>
        \A p \in Rows(df) : \A k \in 1..NLags :
            df[LagName(k)][p] =
                IF NumPrior(p) >= k THEN PriorWeight(p, k) ELSE NaN

Wit_C7 ==
    /\ pc = "L38"
    /\ \E p \in Rows(df) : \E k \in 1..NLags :
        /\ p > 1 /\ EntOf(p - 1) # EntOf(p)
        /\ NumPrior(p) >= k
        /\ KthPrior(p, k) < DateOf(p) - k
        /\ IsFin(df[LagName(k)][p])
        /\ \E q \in RowsAt(DateOf(p) - k) :
              EntOf(q) = EntOf(p) /\ df["w"][q] # df[LagName(k)][p]

\* ------------------------------------------------------------------------
\* Design tables
\* ------------------------------------------------------------------------
PosIn(F, d) == CHOOSE p \in 1..Len(F) : F[p].date = d

DataRows(F) == {F[p] : p \in 1..Len(F)}

\* the daily predictor series before they are lagged
DailyVix == ScaleVix(vix)

DailyRm == Rolling(rm)

DailyG == Dummy(rm)

\* raw is the series as observed, F the predictor computed from it row by row
FiveObsEarlier(raw, F, c, r) ==
    \E p \in (lag + 1)..Len(raw) :
        raw[p].date = r.date /\ r.v[c] = F[p - lag].v[c]

\* C8: in the daily design table every predictor value of a row is the
\* predictor's value five observations earlier in the predictor's own
\* series; the VIX value of day D, divided by sqrt(250), is in the row of
\* the fifth VIX observation after D and in no other row.
Thm_C8 ==
    to_monthly =>
        \A r \in DataRows(data) :
            /\ FiveObsEarlier(vix, DailyVix, "VIX", r)
            /\ FiveObsEarlier(rm, DailyRm, "$R_M$", r)
            /\ FiveObsEarlier(rm, DailyG, "Pre-decim.", r)
            /\ \A p \in 1..Len(vix) :
                  r.v["VIX"] = DivSqrt250(vix[p].v["VIX"])
                      => p + lag <= Len(vix) /\ vix[p + lag].date = r.date

Wit_C8 ==
    /\ to_monthly
    /\ Len(data) >= lag
    /\ \E r \in DataRows(data) :
          /\ vix[PosIn(vix, r.date) - lag].date < r.date - lag
          /\ r.v["VIX"] = DivSqrt250(R(20))
    /\ \E r1, r2 \in DataRows(data) : r1.v["Pre-decim."] # r2.v["Pre-decim."]

\* the row of F that is the fifth from the last row of month m
IsFifthLast(F, p, m) ==
    /\ Month(F[p].date) = m
    /\ Cardinality({q \in 1..Len(F) : Month(F[q].date) = m /\ q > p}) = lag - 1

FromPriorMonth(raw, F, c, r) ==
    \E p \in 1..Len(raw) :
        /\ IsFifthLast(raw, p, Month(r.date) - 1)
        /\ r.v[c] = F[p].v[c]

\* C9: in the monthly design table the predictors of month m are the values
\* observed at the fifth-last trading day of month m-1.
Thm_C9 ==
    rpc = "done" =>
        \A r \in DataRows(data_m) :
            /\ FromPriorMonth(vix, DailyVix, "VIX", r)
            /\ FromPriorMonth(rm, DailyRm, "$R_M$", r)
            /\ FromPriorMonth(rm, DailyG, "Pre-decim.", r)

Wit_C9 ==
    /\ rpc = "done"
    /\ Len(data_m) >= 2
    /\ \E r \in DataRows(data_m) :
          \E p \in 1..Len(vix) :
              /\ IsFifthLast(vix, p, Month(r.date) - 1)
              /\ vix[p].date # (Month(r.date) - 1) * DaysPerMonth - (lag - 1)
              /\ r.v["VIX"] = DivSqrt250(vix[p].v["VIX"])

MonthMeanOfAll(u, m) ==
    MeanSkipNa({p \in 1..Len(ret_in) : Month(ret_in[p].date) = m},
               [p \in 1..Len(ret_in) |-> ret_in[p].v[u]])

\* C10: the monthly dependent variable of a universe is the arithmetic mean
\* of all daily returns of that universe dated in the month.
CE_C10 ==
    rpc = "done" =>
        \A r \in DataRows(data_m) : \A u \in Universes :
            r.v[u] = MonthMeanOfAll(u, Month(r.date))

\* ------------------------------------------------------------------------
\* Hedged returns
\* ------------------------------------------------------------------------
\* C11: the sign attached to a period is +1 exactly when the market return
\* of the previous period is strictly greater than 0 and -1 otherwise, also
\* when that return is exactly 0; it is never 0 and never missing, for any
\* period of the market series.
Thm_C11 ==
    hpc # "L119" =>
        /\ Len(shifted_sign) = Len(index)
        /\ \A p \in 1..Len(index) :
              /\ shifted_sign[p].date = index[p].date
              /\ shifted_sign[p].x \in {R(1), R(-1)}
              /\ (shifted_sign[p].x = R(1)) <=> (p > 1 /\ index[p - 1].x.n > 0)

Wit_C11 ==
    /\ hpc = "L124"
    /\ \E p \in 2..Len(index) :
          index[p - 1].x = R(0) /\ shifted_sign[p].x = R(-1)
    /\ \E p \in 2..Len(index) : shifted_sign[p].x = R(1)
    /\ \E p \in 2..Len(index) : index[p - 1].x.n < 0

ZeroVariance == \A p, q \in 1..Len(index) : index[p].x = index[q].x

AllZero == \A p \in 1..Len(index) : index[p].x = R(0)

\* the coefficients of the hedge regression, the intercept first
FittedParams ==
    LET ds == FitDates(h_ret, index)
    IN  OLSParams(<<Ones(Len(ds)), Col(index, ds),
                    Col(AlignedOp(RMul, index, shifted_sign), ds)>>,
                  Col(h_ret, ds))

\* C12 as stated: with a market return of zero variance the hedged return
\* of every period is the raw return minus the fitted intercept.
CE_C12 ==
    (hpc = "returned" /\ ZeroVariance) =>
        \A p \in 1..Len(hedged_ret) :
            hedged_ret[p].x = RSub(h_ret[p].x, FittedParams[1])

\* C12 amended: with a market return of zero variance the intercept is not
\* subtracted: a market return of 0 in every period leaves the raw return
\* unchanged, and a constant non-zero market return ends the call in an
\* error before anything is returned.
Thm_C12 ==
    ZeroVariance =>
        /\ (AllZero /\ hpc = "returned") => hedged_ret = h_ret
        /\ ~AllZero => hpc \in {"L119", "L124", "L125", "ValueError", "IndexError"}
                       /\ hedged_ret = << >>

Wit_C12 ==
    /\ hpc = "returned"
    /\ AllZero
    /\ FittedParams[1].n # 0
    /\ hedged_ret = h_ret

\* C13: the OLS slope, with intercept, of the hedged return on the market
\* index return over the sample of the hedge regression is 0.
Thm_C13 == hpc = "stats" => stats_beta = <<R(0)>>

Wit_C13 ==
    /\ hpc = "stats"
    /\ Len(beta) = 2 /\ beta[1].n # 0 /\ beta[2].n # 0
    /\ beta[1] # beta[2] /\ beta[1] # RNeg(beta[2])
    /\ \E p \in 1..Len(h_ret) : hedged_ret[p].x # h_ret[p].x
    /\ stats_beta = <<R(0)>>

\* C14: the hedged series has exactly the periods of the raw strategy
\* series handed in: none added, none removed.
Thm_C14 ==
    hedged_ret # << >> =>
        [p \in 1..Len(hedged_ret) |-> hedged_ret[p].date]
            = [p \in 1..Len(h_ret) |-> h_ret[p].date]

Wit_C14 ==
    /\ hpc = "returned"
    /\ Len(hedged_ret) = NumHedgeDates
    /\ \E p \in 1..Len(h_ret) : hedged_ret[p].x # h_ret[p].x
    /\ \A p \in 1..Len(hedged_ret) : IsFin(hedged_ret[p].x)

\* ------------------------------------------------------------------------
\* Raw return table
\* ------------------------------------------------------------------------
\* universes whose wrapper has returned
Returned == {Calls[k] : k \in 1..(a_call - 1)}

\* C15: a wrapper returns exactly the periods p of the engine's output with
\* start <= p <= end, both bounds included, each with the engine's value.
Thm_C15 ==
    \A u \in Returned :
        /\ DOMAIN a_rev[u] =
              {p \in DOMAIN a_out[u] : a_start <= p /\ p <= a_end}
        /\ \A p \in DOMAIN a_rev[u] : a_rev[u][p] = a_out[u][p]

Wit_C15 ==
    \E u \in Returned :
        /\ a_start \in DOMAIN a_rev[u] /\ a_end \in DOMAIN a_rev[u]
        /\ \E p \in DOMAIN a_out[u] : p < a_start
        /\ \E p \in DOMAIN a_out[u] : p > a_end
        /\ a_rev[u][a_end].n # 0

RawDates == {ret_raw[p].date : p \in 1..Len(ret_raw)}

ColumnOf(c) ==
    IF c = "Transact. prices" THEN a_rev["transact"]
    ELSE IF c = "Quote-midpoints" THEN a_rev["midpoint"]
    ELSE a_rev["industry"]

\* C16: the raw return table has one row per date of the union of the
\* three series' dates, a missing value where a universe has no return for
\* the date, and strictly increasing dates.
Thm_C16 ==
    apc = "done" =>
        /\ RawDates = DOMAIN a_rev["transact"] \cup DOMAIN a_rev["midpoint"]
                          \cup DOMAIN a_rev["industry"]
        /\ \A p \in 1..(Len(ret_raw) - 1) :
              ret_raw[p].date < ret_raw[p + 1].date
        /\ \A p \in 1..Len(ret_raw) : \A c \in RawCols :
              ret_raw[p].v[c] =
                  IF ret_raw[p].date \in DOMAIN ColumnOf(c)
                  THEN ColumnOf(c)[ret_raw[p].date] ELSE NaN

Wit_C16 ==
    /\ apc = "done"
    /\ Len(ret_raw) >= 3
    /\ \E p \in 1..Len(ret_raw) :
          /\ IsNaN(ret_raw[p].v["Industry portfolio"])
          /\ IsFin(ret_raw[p].v["Transact. prices"])
          /\ ret_raw[p].v["Transact. prices"].n # 0
    /\ \E p \in 1..Len(ret_raw) : IsNaN(ret_raw[p].v["Quote-midpoints"])

HasDuplicateKey(f) ==
    \E p, q \in Rows(f) :
        p < q /\ f[type_col][p] = f[type_col][q] /\ f["date"][p] = f["date"][q]

\* C17: a panel in which two rows share the same (entity, period) key is
\* rejected before any weight or return is computed and is never processed
\* into a strategy return series.
CE_C17 ==
    \A u \in {"transact", "midpoint"} :
        (apc # "idle" /\ HasDuplicateKey(a_in[u])) =>
            /\ "w" \notin DOMAIN a_in[u]
            /\ a_out[u] = << >>
            /\ a_rev[u] = << >>

\* ------------------------------------------------------------------------
\* Fitted models
\* ------------------------------------------------------------------------
\* C18: no regression result is produced from a design table that is empty
\* or has fewer rows than the regression has parameters.
CE_C18 ==
    \A k \in 1..Len(results) :
        results[k].nobs >= 2 /\ results[k].nobs >= Len(results[k].x)

CoefCount(c) == Cardinality({k \in 1..Len(table) : c \in table[k].coef})

\* C19: generate_table fits twelve models, four per universe in the order
\* trade, quote, industry: daily {VIX}, {VIX, dummy}, {VIX, dummy, market}
\* with 20 HAC lags, then monthly {VIX, dummy, market} with 3; the table
\* has the 12 columns (1)..(12) in that order, VIX in all of them, the
\* dummy in 9 and the market control in 6.
Thm_C19 ==
    gpc = "done" =>
        /\ Len(results) = 12
        /\ \A k \in 1..Len(results) :
              LET u == ((k - 1) \div 4) + 1
                  j == ((k - 1) % 4) + 1
                  xs == {results[k].x[q] : q \in 1..Len(results[k].x)}
                           \ {"Intercept"}
              IN  /\ results[k].y = <<"trade", "quote", "industry">>[u]
                  /\ xs = CASE j = 1 -> {"VIX"}
                             [] j = 2 -> {"VIX", "Pre-decim."}
                             [] OTHER -> {"VIX", "Pre-decim.", "$R_M$"}
                  /\ results[k].maxlags = IF j = 4 THEN 3 ELSE 20
                  /\ results[k].nobs = IF j = 4 THEN Len(data_m) ELSE Len(data)
        /\ Len(table) = 12
        /\ \A k \in 1..Len(table) :
              /\ table[k].head.label = k
              /\ table[k].head.freq =
                     (IF k % 4 = 0 THEN "Monthly" ELSE "Daily")
              /\ table[k].head.group =
                     <<"Transaction-price returns", "Quote-midpoint returns",
                       "Industry portfolios">>[((k - 1) \div 4) + 1]
              /\ table[k].y = results[k].y
        /\ CoefCount("VIX") = 12
        /\ CoefCount("Pre-decim.") = 9
        /\ CoefCount("$R_M$") = 6

Wit_C19 ==
    /\ gpc = "done"
    /\ Len(data) > Len(data_m) /\ Len(data_m) >= 2
    /\ CoefCount("Intercept") = 12

\* ------------------------------------------------------------------------
\* Drawdown
\* ------------------------------------------------------------------------
NeverFalls == \A t \in 1..Len(return_data) : return_data[t].n >= 0

\* C20: for returns that are all >= 0, performance_summary reports a
\* maximum drawdown of exactly 0 and a recovery date equal to the peak date.
Thm_C20 ==
    (ppc = "returned" /\ NeverFalls) =>
        /\ max_drawdown = <<[neg |-> FALSE, hundredths |-> 0]>>
        /\ recovery_date = peak
        /\ recovery_date # NaT

Wit_C20 ==
    /\ ppc = "returned" /\ NeverFalls
    /\ Len(return_data) >= 3
    /\ return_data[1].n > 0 /\ return_data[2].n = 0 /\ return_data[3].n > 0

\* the dates, at or after the trough, on which wealth is back at the level
\* it had on the peak date
BackAtPeak ==
    {t \in bottom..Len(wealth_index) :
        RLe(wealth_index[peak], wealth_index[t])}

\* C21: the recovery date is the first date at or after the trough on which
\* the wealth index is at least its value at the peak before the trough;
\* when there is no such date, the recovery date and the duration are
\* undefined (NaT, NaN) and the call still returns.
Thm_C21 ==
    /\ ppc \in {"L40", "L44", "L46", "L49", "L57", "returned"}
    /\ ppc = "returned" =>
          IF BackAtPeak = {}
          THEN recovery_date = NaT /\ duration = <<"NaN">>
          ELSE /\ recovery_date \in BackAtPeak
               /\ \A t \in BackAtPeak : recovery_date <= t
               /\ duration = <<recovery_date - peak>>

Wit_C21 ==
    /\ ppc = "returned"
    /\ BackAtPeak = {}
    /\ 1 < peak /\ peak < bottom /\ bottom < Len(return_data)

\* C29: peak date <= trough date <= recovery date whenever a recovery date
\* exists, and the duration in days is then non-negative.
Thm_C29 ==
    (ppc = "returned" /\ recovery_date # NaT) =>
        /\ peak <= bottom
        /\ bottom <= recovery_date
        /\ duration[1] >= 0

Wit_C29 ==
    /\ ppc = "returned" /\ recovery_date # NaT
    /\ 1 < peak /\ peak < bottom /\ bottom < recovery_date
    /\ duration[1] >= 2

\* ------------------------------------------------------------------------
\* Row order
\* ------------------------------------------------------------------------
\* the base columns of the panel, rows sorted by (entity, period)
SortedPanel(f) ==
    LET cs == SortCells({<<f[type_col][p], f["date"][p]>> : p \in Rows(f)},
                        "entity")
        at(c) == CHOOSE p \in Rows(f) :
                     f[type_col][p] = c[1] /\ f["date"][p] = c[2]
    IN  ("date" :> [p \in 1..Len(cs) |-> cs[p][2]])
     @@ (type_col :> [p \in 1..Len(cs) |-> cs[p][1]])
     @@ (ret_col :> [p \in 1..Len(cs) |-> f[ret_col][at(cs[p])]])

\* C22: whatever order the rows of the panel arrive in, the returned series
\* is the one computed from the rows in (entity, period) order.
CE_C22 ==
    pc = "done" => out = CalcReverseStrategyRet(SortedPanel(df))

\* ------------------------------------------------------------------------
\* The caller's panel after a wrapper has returned
\* ------------------------------------------------------------------------
\* what the wrapper of universe u returns when called on the panel as the
\* caller holds it now
CallAgain(u) ==
    Window(CalcReverseStrategyRet(IF u = "industry" THEN Unstack(a_in[u])
                                  ELSE Times100(a_in[u])),
           a_start, a_end)

\* C23: after a wrapper has returned, the caller's panel holds the return
\* values it held before, so a second call on it returns the same series
\* as the first.
CE_C23 == \A u \in Returned : CallAgain(u) = a_rev[u]

\* ------------------------------------------------------------------------
\* The caller's tables across prepare_data
\* ------------------------------------------------------------------------
\* C24: the strategy return, volatility and market return tables of the
\* caller hold the same rows after prepare_data as before it.
CE_C24 ==
    /\ ret = ret_in
    /\ FrameDates(vix) = Days
    /\ FrameDates(rm) = Days

\* ------------------------------------------------------------------------
\* Interleaved invocations
\* ------------------------------------------------------------------------
\* the series invocation u returns when it runs alone on its panel
Alone(u) == CalcReverseStrategyRet(View(cdf[cpanel[u]], u))

\* C25: with the statements of the two invocations interleaved in any order,
\* on two panel objects or on one, each invocation returns the series it
\* returns when run alone.
CE_C25 == \A u \in DOMAIN cpc : cpc[u] = "done" => cout[u] = Alone(u)

\* ------------------------------------------------------------------------
\* Sample window and lagged weights
\* ------------------------------------------------------------------------
\* the engine's output on every row the caller's panel of universe u holds
Untruncated(u) ==
    CalcReverseStrategyRet(IF u = "industry" THEN Unstack(a_in[u])
                           ELSE a_in[u])

\* C27: every period of the panel inside [start, end] is returned with the
\* value the engine gives it on the whole panel, observations before start
\* included.
Thm_C27 ==
    \A u \in Returned :
        LET full == Untruncated(u)
        IN  \A p \in DOMAIN full :
                (a_start <= p /\ p <= a_end) =>
                    p \in DOMAIN a_rev[u] /\ a_rev[u][p] = full[p]

Wit_C27 ==
    /\ a_start > 1
    /\ \E u \in Returned :
          /\ 1 \in DOMAIN a_out[u] /\ 1 \notin DOMAIN a_rev[u]
          /\ \E p \in DOMAIN a_rev[u] : p - NLags < a_start /\ a_rev[u][p].n # 0

\* ------------------------------------------------------------------------
\* Row set of the daily design table
\* ------------------------------------------------------------------------
\* every universe has a return on day d in the stored table
AllUniversesAt(d) ==
    /\ d \in FrameDates(ret_in)
    /\ \A u \in Universes : ~IsNaN(RowAt(ret_in, d).v[u])

\* the predictor F, computed row by row from the observed series raw, has a
\* value five observations before day d
LaggedAt(raw, F, c, d) ==
    \E p \in (lag + 1)..Len(raw) :
        raw[p].date = d /\ ~IsNaN(F[p - lag].v[c])

\* C28: a date is in the daily design table if and only if all three
\* universes have a return on it and all three lagged predictors have a
\* value on it; the rows carry the stored returns.
Thm_C28 ==
    to_monthly =>
        /\ FrameDates(data) =
              {d \in Days :
                  /\ AllUniversesAt(d)
                  /\ LaggedAt(vix, DailyVix, "VIX", d)
                  /\ LaggedAt(rm, DailyRm, "$R_M$", d)
                  /\ LaggedAt(rm, DailyG, "Pre-decim.", d)}
        /\ \A r \in DataRows(data) : \A u \in Universes :
              r.v[u] = RowAt(ret_in, r.date).v[u]

Wit_C28 ==
    /\ to_monthly
    /\ Len(data) >= 2
    /\ \E d \in Days \ FrameDates(data) :
          /\ LaggedAt(vix, DailyVix, "VIX", d)
          /\ LaggedAt(rm, DailyRm, "$R_M$", d)
          /\ Cardinality({u \in Universes :
                            IsNaN(RowAt(ret_in, d).v[u])}) = 1
    /\ \E d \in Days \ FrameDates(data) :
          /\ AllUniversesAt(d)
          /\ LaggedAt(vix, DailyVix, "VIX", d)
          /\ ~LaggedAt(rm, DailyRm, "$R_M$", d)

\* ------------------------------------------------------------------------
\* Cleaning
\* ------------------------------------------------------------------------
\* the price of stock e in frame f on the last of its days in month m
LastPrcOf(f, e, m) ==
    LET ps == {p \in Rows(f) : f["permno"][p] = e /\ Period(f["date"][p]) = m}
    IN  f["prc"][CHOOSE p \in ps : \A q \in ps : f["date"][q] <= f["date"][p]]

HasMonth(f, e, m) ==
    \E p \in Rows(f) : f["permno"][p] = e /\ Period(f["date"][p]) = m

KeptLabels == {k_df["(index)"][p] : p \in Rows(k_df)}

\* C26: after clean_1dollar_prc, a row of month m of a stock is kept when
\* the stock's price on its last day of month m-1 is at least 1 and removed
\* when that price is below 1.
CE_C26 ==
    kpc \in {"cp_date", "mid_date"} =>
        \A p \in Rows(k_arg) :
            LET e == k_arg["permno"][p]
                m == Period(k_arg["date"][p])
            IN  HasMonth(k_arg, e, m - 1) =>
                    (k_arg["(index)"][p] \in KeptLabels
                        <=> RLe(R(1), LastPrcOf(k_arg, e, m - 1)))

\* C30: the cleaned quote-midpoint panel has the column
\* 'quote_midpoint_return', and the quote-midpoint universe does not stop
\* on a missing column.
CE_C30 ==
    /\ kpc \in {"strategy_cp", "strategy_mid", "engine"} =>
          "quote_midpoint_return" \in DOMAIN df_midpoint
    /\ kpc # "KeyError"

====
